---- MODULE Spec2Model ----
(***************************************************************************)
(* Model of the eweygewey immediate-mode GUI: the GLFW input adapter       *)
(* (glfwinput.SetInputHandlers), the Manager's focus tokens and frame      *)
(* loop (Manager.Construct), and the widget behaviours of Window that      *)
(* read the input snapshot and claim focus (Button, Editbox, the window    *)
(* drag of Window.construct).                                              *)
(*                                                                         *)
(* Time is counted in tenths of a second.  Positions are integer device    *)
(* pixels.  Strings are sequences of bytes, as Go strings are.             *)
(***************************************************************************)
EXTENDS Integers, Sequences, FiniteSets, TLC

\* ------------------------------------------------------------------------
\* Program constants
\* ------------------------------------------------------------------------

\* eweygewey.go: constants used for polling the state of a mouse button
MouseDown == 0
MouseUp == 1
MouseClick == 2
MouseDoubleClick == 4

\* window.go: results of buttonBehavior
buttonNoAction == 0
buttonPressed == 1
buttonHover == 2

\* keys.go: the key codes the editbox reacts to (iota order)
EweyKeyEscape == 3
EweyKeyEnter == 4
EweyKeyBackspace == 6
EweyKeyInsert == 7
EweyKeyDelete == 8
EweyKeyRight == 9
EweyKeyLeft == 10
EweyKeyHome == 15
EweyKeyEnd == 16

\* glfwinput: const doubleClickThreshold = 0.5 seconds, in tenths of a second
doubleClickThreshold == 5

\* time.Unix(0, 0), the lastPress of a button first seen released
UnixEpoch == 0

\* ------------------------------------------------------------------------
\* Bounds of the model
\* ------------------------------------------------------------------------

\* the wall clock at program start (far from the Unix epoch)
StartTime == 10
\* the wall clock value after which no further frame is constructed
MaxTime == 18
\* the most key press events buffered between two frames
MaxKeys == 2
\* the longest string the editbox is given keys for
MaxLen == 2

\* the time that may pass between two calls of Manager.Construct
FrameDeltas == {2, 5}

\* ------------------------------------------------------------------------
\* The host application: resolution, one window, its build callback
\* ------------------------------------------------------------------------

\* Manager.height (_, resY := uiman.GetResolution()): flips the cursor's y
resY == 12

\* the cursor positions GLFW reports (origin top-left)
CursorPoints == {<<5, 5>>, <<9, 5>>, <<9, 8>>}

\* Window.Location at creation, in display pixels (top-left corner)
InitLocation == <<2, 10>>
\* Window.GetDisplaySize: width and height of the window in display pixels
wndDisplaySize == <<10, 6>>
\* the height the title bar adds to the frame when the font is registered
titleBarHeight == 2

\* The widgets the build callback emits, in call order, each with the
\* rectangle its layout gives it relative to the window's Location:
\* pos = getCursorDC() + margin, and the computed width and height.
OnBuild ==
    << [kind |-> "Button",  id |-> "A", dx |-> 1, dy |-> -2, w |-> 3, h |-> 2],
       [kind |-> "Button",  id |-> "B", dx |-> 2, dy |-> -2, w |-> 3, h |-> 2],
       [kind |-> "Editbox", id |-> "E", dx |-> 6, dy |-> -2, w |-> 3, h |-> 2] >>

\* the ID of the window
WindowID == "W"

\* totalControlHeightDC of the widgets of OnBuild: the title bar and one row
builtHeight == 4

\* the mouse buttons the application asks about (0 is the left button)
Buttons == {0, 1}

\* Manager.ScrollSpeed as NewManager sets it
ScrollSpeed == 10

\* ------------------------------------------------------------------------
\* State
\* ------------------------------------------------------------------------
VARIABLES
    now,                 \* the wall clock (time.Now)
    glfwButton,          \* what window.GetMouseButton reports for each
                         \* button: "Press"/"Release"
    glfwPolls,           \* how often window.GetMouseButton was called for
                         \* each button since the frame started
    glfwCursor,          \* what window.GetCursorPos reports
    FrameStart,          \* Manager.FrameStart
    activeInputID,       \* Manager.activeInputID ("" when unclaimed)
    activeTextEdit,      \* Manager.activeTextEdit (set = FALSE when nil)
    fontRegistered,      \* Manager.fonts holds Style.FontName
    mouseButtonTracker,  \* closure map button -> mouseButtonData
    needsMousePosCheck,  \* closure flag of SetInputHandlers
    lastMouse,           \* closure lastMouseX, lastMouseY
    lastDelta,           \* closure lastDeltaX, lastDeltaY
    keyBuffer,           \* closure keyBuffer
    scrollWheelDelta,    \* closure scrollWheelDelta (the accumulator)
    scrollWheelCache,    \* closure scrollWheelCache (the last drain)
    Location,            \* Window.Location (display pixels)
    IsMoveable,          \* Window.IsMoveable
    IsScrollable,        \* Window.IsScrollable
    ScrollOffset,        \* Window.ScrollOffset
    value,               \* the string bound to the editbox
    pc,                  \* position in the frame: "idle", "begin", "build", "end"
    callIndex,           \* the widget call the build callback makes next
    lmbDown,             \* local of Window.construct
    panicked,            \* a Go run-time panic ended the program
    calls,               \* history: focus calls made by the last step
    result,              \* history: what the last widget call returned
    pressedLog,          \* history: widgets that reported Pressed since the
                         \*          button last went down
    edge,                \* history: platform button transitions
    hist,                \* history: per button, what the polls of
                         \*          window.GetMouseButton saw
    scrollLog,           \* history: scroll events and drains
    mouseLog,            \* history: the mouse positions of the frames
    scrollPass,          \* history: the latest construct pass of the window
    sliderMin,           \* the min the build callback passes to the sliders
    sliderMax,           \* the max the build callback passes to the sliders
    sliderFloat,         \* the float32 bound to SliderFloat, in units of
                         \*          1/sliderW
    sliderInt,           \* the int bound to SliderInt
    sliderLog,           \* history: per slider, its latest drag update
    keyLog,              \* history: the key events the Editbox call of the
                         \*          current pass consumed
    Width,               \* Window.GetDisplaySize: the width in display pixels
    WindowPadding,       \* Style.WindowPadding: left, right, top, bottom
    widgetCursorDC,      \* Window.widgetCursorDC: x and y
    nextRowCursorOffsetDC,    \* Window.nextRowCursorOffsetDC
    requestedItemWidthMinDC,  \* Window.requestedItemWidthMinDC
    requestedItemWidthMaxDC,  \* Window.requestedItemWidthMaxDC
    indentLevel,         \* Window.indentLevel
    layoutLog,           \* history: the latest layout call of the build
                         \*          callback
    windows,             \* Manager.windows: a slice, that is a backing
                         \*          array and a length
    created,             \* the number of windows newWindow has made
    rangeLoop,           \* the loop of Manager.Construct over the windows
    pass,                \* history: the windows of the latest Construct
    mgrLog,               \* history: the latest call that used the list
    value2,    \* the string bound to a second editbox
    keyLog2,    \* history: the key events the call of the second editbox consumed
    intStorage,    \* Window.intStorage: a map from string to int
    treeLog,    \* history: the presses of the tree node and its latest call
    wndCmds,    \* Window.cmds of each window that draws, in window order
    uiGeometry,    \* Manager.comboBuffer, indexBuffer and faceCount
    gfxEnabled,    \* the capabilities of the graphics provider: DEPTH_TEST, SCISSOR_TEST
    drawLog    \* history: where the frame of the drawing windows stands

\* a second editbox of the build callback
pairVars == << value2, keyLog2 >>

\* the integer store of the window and the tree node that uses it
treeVars == << intStorage, treeLog >>

\* what the windows hand to Manager.Draw and what Draw does with it
drawVars == << wndCmds, uiGeometry, gfxEnabled, drawLog >>

frameVars == << now, glfwButton, glfwCursor, FrameStart, activeInputID,
           activeTextEdit, fontRegistered, mouseButtonTracker,
           needsMousePosCheck, lastMouse, lastDelta, keyBuffer, Location,
           IsMoveable, value, pc, callIndex, lmbDown, panicked, calls,
           result, pressedLog, edge, glfwPolls, scrollWheelDelta,
           scrollWheelCache, hist, scrollLog, mouseLog, IsScrollable,
           ScrollOffset, scrollPass, sliderMin, sliderMax, sliderFloat,
           sliderInt, sliderLog, keyLog, Width, WindowPadding,
           widgetCursorDC, nextRowCursorOffsetDC, requestedItemWidthMinDC,
           requestedItemWidthMaxDC, indentLevel, layoutLog, pairVars, treeVars >>

\* the list of windows the Manager keeps
managerVars == << windows, created, rangeLoop, pass, mgrLog >>

vars == << frameVars, managerVars, drawVars >>

\* the size and the style the application gives the window
styleVars == << Width, WindowPadding >>

\* where the window inserts the next widget
layoutVars == << widgetCursorDC, nextRowCursorOffsetDC,
                requestedItemWidthMinDC, requestedItemWidthMaxDC,
                indentLevel, layoutLog >>

\* the sliders of the build callback: their arguments and bound values
sliderVars == << sliderMin, sliderMax, sliderFloat, sliderInt, sliderLog >>

\* the history of the calls made to the input functions
inputObs == << hist, scrollLog, mouseLog >>

\* Manager.activeTextEdit == nil
NilEditor == [set |-> FALSE, ID |-> "", CursorOffset |-> 0]

\* The state the library functions read and write, as one record.
St ==
    [ now |-> now, glfwButton |-> glfwButton, glfwCursor |-> glfwCursor,
      FrameStart |-> FrameStart, activeInputID |-> activeInputID,
      activeTextEdit |-> activeTextEdit, fontRegistered |-> fontRegistered,
      mouseButtonTracker |-> mouseButtonTracker,
      needsMousePosCheck |-> needsMousePosCheck, lastMouse |-> lastMouse,
      lastDelta |-> lastDelta, keyBuffer |-> keyBuffer, Location |-> Location,
      value |-> value, panicked |-> panicked, calls |-> <<>>,
      glfwPolls |-> glfwPolls, scrollWheelDelta |-> scrollWheelDelta,
      scrollWheelCache |-> scrollWheelCache, ScrollOffset |-> ScrollOffset ]

\* ------------------------------------------------------------------------
\* glfwinput.SetInputHandlers: the closures installed on the Manager.
\* Every operator takes the state record and returns the new state record
\* s together with the returned value ret.
\* ------------------------------------------------------------------------

\* Sequencing of statements: "v := e; F(v)".  e is evaluated once and F
\* is applied to its value.
Bind(e, F(_)) == CHOOSE r \in { F(v) : v \in {e} } : TRUE

\* the zero value of time.Time (before the first Construct)
ZeroTime == UnixEpoch - 1

\* the zero value of mouseButtonData (var mbData mouseButtonData)
ZeroMouseButtonData ==
    [ lastPress |-> ZeroTime, lastPressLocation |-> <<0, 0>>,
      lastAction |-> 0, doubleClickDetected |-> FALSE,
      lastCheckedAt |-> ZeroTime ]

\* uiman.GetMousePosition
GetMousePosition(s) ==
    IF s.needsMousePosCheck = FALSE
    THEN [s |-> s, ret |-> s.lastMouse]
    ELSE LET x == s.glfwCursor[1]
             y == resY - s.glfwCursor[2]
         IN  [ s |-> [s EXCEPT !.lastDelta = <<x - s.lastMouse[1], y - s.lastMouse[2]>>,
                               !.lastMouse = <<x, y>>,
                               !.needsMousePosCheck = FALSE],
               ret |-> <<x, y>> ]

\* uiman.GetMousePositionDelta
GetMousePositionDelta(s) ==
    Bind(IF s.needsMousePosCheck THEN GetMousePosition(s).s ELSE s,
         LAMBDA s1 : [s |-> s1, ret |-> s1.lastDelta])

\* window.GetMouseButton mapped to gui.MouseUp / gui.MouseDown
PolledAction(s, button) ==
    IF s.glfwButton[button] = "Release" THEN MouseUp ELSE MouseDown

\* the test of the double click threshold with <= in place of <
WithinDoubleClickInclusive(s, mbData) ==
    s.FrameStart - mbData.lastPress <= doubleClickThreshold

\* uiman.FrameStart.Sub(mbData.lastPress).Seconds() < doubleClickThreshold
WithinDoubleClick(s, mbData) ==
    s.FrameStart - mbData.lastPress < doubleClickThreshold

\* uiman.GetMouseButtonAction after the test for a result of this frame:
\* the poll of the platform and the update of the tracked data
pollMouseButton(s, button) ==
    LET tracked == button \in DOMAIN s.mouseButtonTracker
        mbData  == IF tracked THEN s.mouseButtonTracker[button]
                              ELSE ZeroMouseButtonData
        polled  == PolledAction(s, button)
        \* the state after uiman.GetMousePosition() where the code calls it
        pressPos == GetMousePosition(s)
        isPress  == IF tracked = FALSE
                    THEN polled = MouseDown
                    ELSE polled = MouseDown /\ mbData.lastAction = MouseUp
        isRelease == tracked /\ polled # MouseDown
                             /\ mbData.lastAction = MouseDown
        action  == IF isRelease
                   THEN IF mbData.doubleClickDetected
                        THEN MouseDoubleClick ELSE MouseClick
                   ELSE polled
        dcd     == IF tracked /\ isPress /\ WithinDoubleClick(s, mbData)
                   THEN TRUE
                   ELSE IF isRelease /\ mbData.doubleClickDetected
                        THEN FALSE
                        ELSE mbData.doubleClickDetected
        press   == IF isPress THEN s.FrameStart
                   ELSE IF tracked = FALSE THEN UnixEpoch
                   ELSE mbData.lastPress
        loc     == IF isPress THEN pressPos.ret ELSE mbData.lastPressLocation
        s1      == IF isPress THEN pressPos.s ELSE s
        updated == [ lastPress |-> press, lastPressLocation |-> loc,
                     lastAction |-> action, doubleClickDetected |-> dcd,
                     lastCheckedAt |-> s.FrameStart ]
    IN  [ s |-> [s1 EXCEPT !.mouseButtonTracker =
                     [b \in (DOMAIN s.mouseButtonTracker) \cup {button} |->
                         IF b = button THEN updated
                         ELSE s.mouseButtonTracker[b]],
                            \* window.GetMouseButton was called
                            !.glfwPolls[button] = @ + 1],
          ret |-> action ]

\* GetMouseButtonAction that polls the platform at every call
GetMouseButtonActionNoMemo(s, button) == pollMouseButton(s, button)

\* GetMouseButtonAction that leaves a set double click flag set
GetMouseButtonActionKeepsFlag(s, button) ==
    IF button \in DOMAIN s.mouseButtonTracker
       /\ s.mouseButtonTracker[button].lastCheckedAt = s.FrameStart
    THEN [s |-> s, ret |-> s.mouseButtonTracker[button].lastAction]
    ELSE Bind(pollMouseButton(s, button), LAMBDA r :
             IF button \in DOMAIN s.mouseButtonTracker
                /\ s.mouseButtonTracker[button].doubleClickDetected
             THEN [r EXCEPT
                     !.s.mouseButtonTracker[button].doubleClickDetected = TRUE]
             ELSE r)

\* uiman.GetMouseButtonAction
GetMouseButtonAction(s, button) ==
    IF button \in DOMAIN s.mouseButtonTracker
       /\ s.mouseButtonTracker[button].lastCheckedAt = s.FrameStart
    THEN [s |-> s, ret |-> s.mouseButtonTracker[button].lastAction]
    ELSE pollMouseButton(s, button)

\* uiman.ClearMouseButtonAction
ClearMouseButtonAction(s, buttonNumber) ==
    IF buttonNumber \in DOMAIN s.mouseButtonTracker
    THEN [s EXCEPT !.mouseButtonTracker[buttonNumber] =
              [@ EXCEPT !.lastAction = MouseUp, !.doubleClickDetected = FALSE]]
    ELSE s

\* uiman.GetMouseDownPosition
GetMouseDownPosition(s, button) ==
    Bind(IF s.needsMousePosCheck THEN GetMousePosition(s).s ELSE s, LAMBDA s1 :
    Bind(GetMouseButtonAction(s1, button), LAMBDA r :
        IF r.ret # MouseUp /\ button \in DOMAIN r.s.mouseButtonTracker
        THEN [s |-> r.s, ret |-> r.s.mouseButtonTracker[button].lastPressLocation]
        ELSE [s |-> r.s, ret |-> <<-1, -1>>]))

\* uiman.GetScrollWheelDelta with a drain that leaves the accumulator alone
GetScrollWheelDeltaKeepsAccumulator(s, useCached) ==
    IF useCached
    THEN [s |-> s, ret |-> s.scrollWheelCache]
    ELSE [ s |-> [s EXCEPT !.scrollWheelCache = s.scrollWheelDelta],
           ret |-> s.scrollWheelDelta ]

\* uiman.GetScrollWheelDelta
GetScrollWheelDelta(s, useCached) ==
    IF useCached
    THEN [s |-> s, ret |-> s.scrollWheelCache]
    ELSE [ s |-> [s EXCEPT !.scrollWheelCache = s.scrollWheelDelta,
                           !.scrollWheelDelta = 0],
           ret |-> s.scrollWheelDelta ]

\* uiman.GetKeyEvents
GetKeyEvents(s) == [s |-> [s EXCEPT !.keyBuffer = <<>>], ret |-> s.keyBuffer]

\* uiman.ClearKeyEvents
ClearKeyEvents(s) == [s EXCEPT !.keyBuffer = <<>>]

\* ------------------------------------------------------------------------
\* Manager: the two focus tokens
\* ------------------------------------------------------------------------

\* SetActiveInputID as it would be if a claim succeeded only on an empty
\* token (the test of the button left out).
SetActiveInputIDOnlyWhenEmpty(s, id) ==
    IF s.activeInputID = ""
    THEN [ s |-> [s EXCEPT !.activeInputID = id,
                           !.activeTextEdit =
                               IF s.activeTextEdit.set /\ id # s.activeTextEdit.ID
                               THEN NilEditor ELSE @],
           ret |-> TRUE ]
    ELSE [s |-> s, ret |-> FALSE]

\* SetActiveInputID as it would be if it left the text editor alone.
SetActiveInputIDKeepsEditor(s, id) ==
    Bind(IF s.activeInputID = ""
         THEN [s |-> s, ret |-> MouseUp]
         ELSE GetMouseButtonAction(s, 0), LAMBDA r :
        IF s.activeInputID = "" \/ r.ret # MouseDown
        THEN [s |-> [r.s EXCEPT !.activeInputID = id], ret |-> TRUE]
        ELSE [s |-> r.s, ret |-> FALSE])

\* Manager.SetActiveInputID.  Go evaluates || left to right: the button is
\* polled only when activeInputID is not empty.
SetActiveInputID(s, id) ==
    Bind(IF s.activeInputID = ""
         THEN [s |-> s, ret |-> MouseUp]
         ELSE GetMouseButtonAction(s, 0), LAMBDA r :
        IF s.activeInputID = "" \/ r.ret # MouseDown
        THEN [ s |-> [r.s EXCEPT !.activeInputID = id,
                                 !.activeTextEdit =
                                     IF r.s.activeTextEdit.set /\ id # r.s.activeTextEdit.ID
                                     THEN NilEditor ELSE @],
               ret |-> TRUE ]
        ELSE [s |-> r.s, ret |-> FALSE])

\* Manager.GetActiveInputID
GetActiveInputID(s) == s.activeInputID

\* Manager.ClearActiveInputID
ClearActiveInputID(s) == [s EXCEPT !.activeInputID = ""]

\* setActiveTextEditor as it would be without the call of ClearKeyEvents.
setActiveTextEditorKeepsKeys(s, id, cursorPos) ==
    IF s.activeTextEdit.set
    THEN [s |-> s, ret |-> FALSE]
    ELSE [ s |-> [s EXCEPT !.activeTextEdit =
                     [set |-> TRUE, ID |-> id, CursorOffset |-> cursorPos]],
           ret |-> TRUE ]

\* Manager.setActiveTextEditor
setActiveTextEditor(s, id, cursorPos) ==
    IF s.activeTextEdit.set
    THEN [s |-> s, ret |-> FALSE]
    ELSE [ s |-> ClearKeyEvents(
                    [s EXCEPT !.activeTextEdit =
                        [set |-> TRUE, ID |-> id, CursorOffset |-> cursorPos]]),
           ret |-> TRUE ]

\* Manager.getActiveTextEditor
getActiveTextEditor(s) == s.activeTextEdit

\* Manager.clearActiveTextEditor
clearActiveTextEditor(s) == [s EXCEPT !.activeTextEdit = NilEditor]

\* The call sites of SetActiveInputID: the call, and a record of it (what
\* the caller passed, what it got back, the tokens before and after) that
\* the properties below read.
TracedSetActiveInputID(s, id) ==
    Bind(SetActiveInputID(s, id), LAMBDA r :
        [ s |-> [r.s EXCEPT !.calls = Append(@,
                    [ fn |-> "SetActiveInputID", id |-> id, cursorPos |-> 0,
                      ret |-> r.ret,
                      preID |-> s.activeInputID,
                      preAction |-> GetMouseButtonAction(s, 0).ret,
                      preEdit |-> s.activeTextEdit, preKeys |-> s.keyBuffer,
                      postID |-> r.s.activeInputID,
                      postEdit |-> r.s.activeTextEdit,
                      postKeys |-> r.s.keyBuffer ])],
          ret |-> r.ret ])

\* The call sites of setActiveTextEditor, recorded the same way.
TracedSetActiveTextEditor(s, id, cursorPos) ==
    Bind(setActiveTextEditor(s, id, cursorPos), LAMBDA r :
        [ s |-> [r.s EXCEPT !.calls = Append(@,
                    [ fn |-> "setActiveTextEditor", id |-> id,
                      cursorPos |-> cursorPos, ret |-> r.ret,
                      preID |-> s.activeInputID,
                      preAction |-> GetMouseButtonAction(s, 0).ret,
                      preEdit |-> s.activeTextEdit, preKeys |-> s.keyBuffer,
                      postID |-> r.s.activeInputID,
                      postEdit |-> r.s.activeTextEdit,
                      postKeys |-> r.s.keyBuffer ])],
          ret |-> r.ret ])

\* ------------------------------------------------------------------------
\* Window: geometry
\* ------------------------------------------------------------------------

\* Window.GetFrameSize: the display size plus the title bar, which is added
\* only when the font is found (ShowTitleBar is true, ShowScrollBar false,
\* as newWindow leaves them).
GetFrameSize(s) ==
    << s.Location[1], s.Location[2], Width,
       wndDisplaySize[2] + (IF s.fontRegistered THEN titleBarHeight ELSE 0) >>

\* Window.ContainsPosition
ContainsPosition(s, x, y) ==
    LET f == GetFrameSize(s)
    IN  x > f[1] /\ x < f[1] + f[3] /\ y < f[2] /\ y > f[2] - f[4]

\* The rectangle test every widget uses:
\* mx > minX && my > minY-height && mx < minX+width && my < minY
InRect(mx, my, minX, minY, width, height) ==
    mx > minX /\ my > minY - height /\ mx < minX + width /\ my < minY

\* Window.getCursorDC plus the widget's margin: the widget's top-left corner
WidgetPos(s, w) ==
    << s.Location[1] + w.dx, s.Location[2] + s.ScrollOffset + w.dy >>

\* ------------------------------------------------------------------------
\* Window: the insertion cursor and the width requests
\* ------------------------------------------------------------------------

\* DefaultStyle: the margins of the widgets (left, right, top, bottom)
TextMargin == <<2, 2, 2, 2>>
ButtonMargin == <<2, 2, 2, 2>>
EditboxMargin == <<2, 2, 2, 2>>
SliderMargin == <<2, 2, 2, 2>>
ImageMargin == <<0, 0, 0, 0>>

\* the layout fields of the window, as one record
Lay ==
    [ widgetCursorDC |-> widgetCursorDC,
      nextRowCursorOffsetDC |-> nextRowCursorOffsetDC,
      requestedItemWidthMinDC |-> requestedItemWidthMinDC,
      requestedItemWidthMaxDC |-> requestedItemWidthMaxDC,
      indentLevel |-> indentLevel ]

\* the layout record l becomes the next state
CommitLayout(l) ==
    /\ widgetCursorDC' = l.widgetCursorDC
    /\ nextRowCursorOffsetDC' = l.nextRowCursorOffsetDC
    /\ requestedItemWidthMinDC' = l.requestedItemWidthMinDC
    /\ requestedItemWidthMaxDC' = l.requestedItemWidthMaxDC
    /\ indentLevel' = l.indentLevel

\* ClipF32 on a fraction f = <<numerator, denominator>> with a positive
\* denominator
ClipF32(min, max, f) ==
    IF f[1] < min * f[2] THEN <<min, 1>>
    ELSE IF f[1] > max * f[2] THEN <<max, 1>>
    ELSE f

\* reqMin * unpaddedWndW for a fraction; the widths and the fractions of
\* the model make the product a whole number of pixels
Scaled(f, widthDC) == (f[1] * widthDC) \div f[2]

\* the part of Window.construct that resets the cursor: the left padding,
\* the scroll offset, the title bar and the top padding
resetCursor(l, scrollOffset, titleBar) ==
    [l EXCEPT !.widgetCursorDC =
                  << WindowPadding[1],
                     scrollOffset - titleBar - WindowPadding[3] >>,
              !.nextRowCursorOffsetDC = 0]

\* Style.IndentSpacing of DefaultStyle
IndentSpacing == 26

\* Window.StartRow
StartRow(l) ==
    [l EXCEPT !.widgetCursorDC =
                  << WindowPadding[1] + IndentSpacing * l.indentLevel,
                     @[2] - l.nextRowCursorOffsetDC >>,
              !.nextRowCursorOffsetDC = 0]

\* Window.Indent
Indent(l) ==
    [l EXCEPT !.indentLevel = @ + 1,
              !.widgetCursorDC = << @[1] + IndentSpacing, @[2] >>]

\* Window.Unindent
Unindent(l) ==
    [l EXCEPT !.indentLevel = IF @ - 1 < 0 THEN 0 ELSE @ - 1,
              !.widgetCursorDC = << @[1] - IndentSpacing, @[2] >>]

\* Window.RequestItemWidthMin
RequestItemWidthMin(l, nextMinWS) ==
    LET reqMin == ClipF32(0, 1, nextMinWS)
        unpaddedWndW == Width - WindowPadding[1] - WindowPadding[2]
        requested == Scaled(reqMin, unpaddedWndW)
    IN  [l EXCEPT !.requestedItemWidthMinDC =
            IF l.widgetCursorDC[1] + requested > unpaddedWndW
            THEN unpaddedWndW - l.widgetCursorDC[1]
            ELSE requested]

\* Window.RequestItemWidthMax
RequestItemWidthMax(l, nextMaxWS) ==
    LET reqMax == ClipF32(0, 1, nextMaxWS)
        unpaddedWndW == Width - WindowPadding[1] - WindowPadding[2]
        requested == Scaled(reqMax, unpaddedWndW)
    IN  [l EXCEPT !.requestedItemWidthMaxDC =
            IF l.widgetCursorDC[1] + requested > unpaddedWndW
            THEN unpaddedWndW - l.widgetCursorDC[1]
            ELSE requested]

\* Window.addCursorHorizontalDelta that resets the minimum request only
addCursorHorizontalDeltaKeepsMax(l, hWidth) ==
    LET atLeast == IF /\ l.requestedItemWidthMinDC > 0
                      /\ l.requestedItemWidthMinDC > hWidth
                   THEN l.requestedItemWidthMinDC ELSE hWidth
        atMost == IF /\ l.requestedItemWidthMaxDC > 0
                     /\ l.requestedItemWidthMaxDC < atLeast
                  THEN l.requestedItemWidthMaxDC ELSE atLeast
    IN  [l EXCEPT !.requestedItemWidthMinDC = 0,
                  !.widgetCursorDC = << @[1] + atMost, @[2] >>]

\* Window.addCursorHorizontalDelta: the requests are applied, minimum
\* first, and both are reset
addCursorHorizontalDelta(l, hWidth) ==
    LET atLeast == IF /\ l.requestedItemWidthMinDC > 0
                      /\ l.requestedItemWidthMinDC > hWidth
                   THEN l.requestedItemWidthMinDC ELSE hWidth
        atMost == IF /\ l.requestedItemWidthMaxDC > 0
                     /\ l.requestedItemWidthMaxDC < atLeast
                  THEN l.requestedItemWidthMaxDC ELSE atLeast
    IN  [l EXCEPT !.requestedItemWidthMinDC = 0,
                  !.requestedItemWidthMaxDC = 0,
                  !.widgetCursorDC = << @[1] + atMost, @[2] >>]

\* Window.setNextRowCursorOffset that records the latest height
setNextRowCursorOffsetLatest(l, offset) ==
    [l EXCEPT !.nextRowCursorOffsetDC = offset]

\* Window.setNextRowCursorOffset
setNextRowCursorOffset(l, offset) ==
    IF offset > l.nextRowCursorOffsetDC
    THEN [l EXCEPT !.nextRowCursorOffsetDC = offset]
    ELSE l

\* Window.clampWidgetWidthToReqW
clampWidgetWidthToReqW(l, widthDC) ==
    LET atLeast == IF /\ l.requestedItemWidthMinDC > 0
                      /\ l.requestedItemWidthMinDC > widthDC
                   THEN l.requestedItemWidthMinDC ELSE widthDC
    IN  IF /\ l.requestedItemWidthMaxDC > 0
           /\ l.requestedItemWidthMaxDC < widthDC
        THEN l.requestedItemWidthMaxDC ELSE atLeast

\* the end of every widget function: the cursor moves right by the
\* widget's width and the row grows to the widget's height
placeWidget(l, hWidth, offset) ==
    setNextRowCursorOffset(addCursorHorizontalDelta(l, hWidth), offset)

\* Window.Text that lays the text out without looking for the font
TextWithoutFont(l, font, width, height) ==
    [ l |-> placeWidget(l, width + TextMargin[1] + TextMargin[2],
                        height + TextMargin[3] + TextMargin[4]),
      err |-> ~font ]

\* Window.Text for a message the font renders width x height pixels large;
\* font tells whether the Manager holds Style.FontName
Text(l, font, width, height) ==
    IF ~font
    THEN [l |-> l, err |-> TRUE]
    ELSE [ l |-> placeWidget(l, width + TextMargin[1] + TextMargin[2],
                             height + TextMargin[3] + TextMargin[4]),
           err |-> FALSE ]

\* Window.Image for an image of widthDC x heightDC display pixels
Image(l, font, widthDC, heightDC) ==
    IF ~font
    THEN [l |-> l, err |-> TRUE]
    ELSE [ l |-> placeWidget(l, clampWidgetWidthToReqW(l, widthDC)
                                   + ImageMargin[1] + ImageMargin[2],
                             heightDC + ImageMargin[3] + ImageMargin[4]),
           err |-> FALSE ]

\* the end of Window.Button for a button w: a failed call returns before
\* it reaches the cursor
buttonLayout(l, err, w) ==
    IF err THEN l
    ELSE placeWidget(l, clampWidgetWidthToReqW(l, w.w + ButtonMargin[1]
                                                      + ButtonMargin[2]),
                     w.h + ButtonMargin[3] + ButtonMargin[4])

\* wndWidth - widgetCursorDC[0] - WindowPadding[1] - margin[1]: the width
\* an editbox or a slider takes when nothing was requested
RestOfRow(l, margin) ==
    Width - l.widgetCursorDC[1] - WindowPadding[2] - margin[2]

\* the end of Window.Editbox: the box takes what is left of the row
editboxLayout(l, err, w) ==
    IF err THEN l
    ELSE placeWidget(l, clampWidgetWidthToReqW(l, RestOfRow(l, EditboxMargin)),
                     w.h + EditboxMargin[3] + EditboxMargin[4])

\* the end of Window.sliderBehavior: the slider takes what is left of the row
sliderLayout(l, err, w) ==
    IF err THEN l
    ELSE placeWidget(l, clampWidgetWidthToReqW(l, RestOfRow(l, SliderMargin)),
                     w.h + SliderMargin[3] + SliderMargin[4])

\* no layout call was made in this pass
NoLayoutLog ==
    [ n |-> 0, kind |-> "", err |-> FALSE, before |-> <<0, 0>>,
      askedMin |-> <<0, 1>>, pendingMin |-> 0, pendingMax |-> 0,
      natural |-> 0, drawn |-> 0, afterConsumer |-> FALSE, heights |-> {} ]

\* the fraction a RequestItemWidthMin call asked for when it was the call
\* right before this one
AskedBefore ==
    IF layoutLog.kind = "RequestItemWidthMin" THEN layoutLog.askedMin
    ELSE <<0, 1>>

\* How far right of the cursor a widget draws: every widget starts at
\* pos[0] += margin[0].  Text draws renderData.Width; Image draws the
\* clamped widthDC; Button, Editbox and sliderBehavior draw a rectangle of
\* the clamped width minus both margins; Space draws nothing.
DrawnExtent(kind, l, natural) ==
    IF kind = "Text" THEN TextMargin[1] + natural
    ELSE IF kind = "Image"
    THEN ImageMargin[1] + clampWidgetWidthToReqW(l, natural)
    ELSE IF kind = "Button"
    THEN clampWidgetWidthToReqW(l, natural + ButtonMargin[1] + ButtonMargin[2])
             - ButtonMargin[2]
    ELSE IF kind = "Editbox"
    THEN clampWidgetWidthToReqW(l, natural) - EditboxMargin[2]
    ELSE IF kind \in {"SliderFloat", "SliderInt"}
    THEN clampWidgetWidthToReqW(l, natural) - SliderMargin[2]
    ELSE 0

\* the calls that end in addCursorHorizontalDelta
AdvancingWidgets ==
    {"Text", "Image", "Button", "Editbox", "SliderFloat", "SliderInt", "Space"}

\* the call logged last advanced the cursor while a width request was
\* pending
ConsumedRequest ==
    /\ layoutLog.kind \in AdvancingWidgets
    /\ ~layoutLog.err
    /\ (layoutLog.pendingMin > 0 \/ layoutLog.pendingMax > 0)

\* the calls that end in setNextRowCursorOffset
RowWidgets ==
    {"Text", "Image", "Button", "Editbox", "SliderFloat", "SliderInt"}

\* a widget call of the build callback ends with the layout l; natural is
\* the width the widget has without a request, height is what the widget
\* passes to setNextRowCursorOffset
LaidOut(kind, err, l, natural, height) ==
    /\ CommitLayout(l)
    /\ layoutLog' = [ n |-> layoutLog.n + 1, kind |-> kind, err |-> err,
                      before |-> widgetCursorDC, askedMin |-> AskedBefore,
                      pendingMin |-> requestedItemWidthMinDC,
                      pendingMax |-> requestedItemWidthMaxDC,
                      natural |-> natural,
                      drawn |-> IF err THEN 0
                                ELSE DrawnExtent(kind, Lay, natural),
                      afterConsumer |-> ConsumedRequest,
                      heights |-> IF kind = "StartRow" THEN {}
                                  ELSE IF kind \in RowWidgets /\ ~err
                                  THEN layoutLog.heights \cup {height}
                                  ELSE layoutLog.heights ]

\* Window.Space
Space(l, spaceS) == addCursorHorizontalDelta(l, Scaled(spaceS, Width))

\* ------------------------------------------------------------------------
\* Window: the button family
\* ------------------------------------------------------------------------

\* Window.buttonBehavior
buttonBehavior(s, id, minX, minY, width, height) ==
    Bind(GetMousePosition(s), LAMBDA m :
        IF InRect(m.ret[1], m.ret[2], minX, minY, width, height)
        THEN Bind(GetMouseButtonAction(m.s, 0), LAMBDA a :
             IF a.ret = MouseClick
             THEN [s |-> a.s, ret |-> buttonPressed]
             ELSE IF a.ret = MouseUp
             THEN [s |-> a.s, ret |-> buttonHover]
             ELSE Bind(GetMouseDownPosition(a.s, 0), LAMBDA d :
                  IF InRect(d.ret[1], d.ret[2], minX, minY, width, height)
                  THEN [s |-> TracedSetActiveInputID(d.s, id).s, ret |-> buttonHover]
                  ELSE [s |-> d.s, ret |-> buttonNoAction]))
        ELSE [s |-> m.s, ret |-> buttonNoAction])

\* Window.Button without the ClearMouseButtonAction(0) of a pressed button
ButtonKeepsClick(s, w) ==
    IF s.fontRegistered = FALSE
    THEN [s |-> s, pressed |-> FALSE, err |-> TRUE, test |-> buttonNoAction]
    ELSE Bind(WidgetPos(s, w), LAMBDA pos :
         Bind(buttonBehavior(s, w.id, pos[1], pos[2], w.w, w.h), LAMBDA b :
             [ s |-> b.s, pressed |-> (b.ret = buttonPressed), err |-> FALSE,
               test |-> b.ret ]))

\* Window.Button: returns (pressed, error); test is the buttonBehavior result
Button(s, w) ==
    IF s.fontRegistered = FALSE
    THEN [s |-> s, pressed |-> FALSE, err |-> TRUE, test |-> buttonNoAction]
    ELSE Bind(WidgetPos(s, w), LAMBDA pos :
         Bind(buttonBehavior(s, w.id, pos[1], pos[2], w.w, w.h), LAMBDA b :
             [ s |-> IF b.ret = buttonPressed
                     THEN ClearMouseButtonAction(b.s, 0) ELSE b.s,
               pressed |-> (b.ret = buttonPressed), err |-> FALSE,
               test |-> b.ret ]))

\* ------------------------------------------------------------------------
\* Window: the tree node
\* ------------------------------------------------------------------------

\* Style.TreeNodeMargin of DefaultStyle
TreeNodeMargin == <<2, 2, 2, 2>>

\* the tree node of the build callback with its rectangle; nodeH is 4
TreeWidget == [kind |-> "TreeNode", id |-> "T", dx |-> 1, dy |-> -2, w |-> 3, h |-> 4]

\* make(map[string]int)
NoInts == [key \in {} |-> 0]

\* Window.getStoredInt: the value and whether the key was present
getStoredInt(store, key) ==
    IF key \in DOMAIN store THEN << store[key], TRUE >> ELSE << 0, FALSE >>

\* Window.setStoredInt
setStoredInt(store, key, v) ==
    [k \in DOMAIN store \cup {key} |-> IF k = key THEN v ELSE store[k]]

\* Window.TreeNode that stores the open state whether pressed or not and
\* opens a node it finds without a stored state
TreeNodeOpensUnstored(s, store, w) ==
    IF s.fontRegistered = FALSE
    THEN [s |-> s, store |-> store, ret |-> FALSE, pressed |-> FALSE, err |-> TRUE]
    ELSE Bind(getStoredInt(store, w.id), LAMBDA stored :
         Bind(WidgetPos(s, w), LAMBDA pos :
         Bind(buttonBehavior(s, w.id, pos[1], pos[2], w.w, w.h), LAMBDA b :
         Bind(IF b.ret = buttonPressed THEN ~(stored[2] /\ stored[1] > 0)
                                       ELSE ~stored[2] \/ stored[1] > 0,
              LAMBDA openState :
             [ s |-> IF b.ret = buttonPressed
                     THEN ClearMouseButtonAction(b.s, 0) ELSE b.s,
               store |-> setStoredInt(store, w.id, IF openState THEN 1 ELSE 0),
               ret |-> openState, pressed |-> (b.ret = buttonPressed),
               err |-> FALSE ]))))

\* Window.TreeNode: returns (openState, error); store is Window.intStorage
TreeNode(s, store, w) ==
    IF s.fontRegistered = FALSE
    THEN [s |-> s, store |-> store, ret |-> FALSE, pressed |-> FALSE, err |-> TRUE]
    ELSE Bind(getStoredInt(store, w.id), LAMBDA stored :
         Bind(WidgetPos(s, w), LAMBDA pos :
         Bind(buttonBehavior(s, w.id, pos[1], pos[2], w.w, w.h), LAMBDA b :
         Bind(IF b.ret = buttonPressed THEN ~(stored[2] /\ stored[1] > 0)
                                       ELSE stored[2] /\ stored[1] > 0,
              LAMBDA openState :
             [ s |-> IF b.ret = buttonPressed
                     THEN ClearMouseButtonAction(b.s, 0) ELSE b.s,
               store |-> IF b.ret = buttonPressed
                         THEN setStoredInt(store, w.id,
                                           IF openState THEN 1 ELSE 0)
                         ELSE store,
               ret |-> openState, pressed |-> (b.ret = buttonPressed),
               err |-> FALSE ]))))

\* the end of Window.TreeNode: iconXOffset is nodeH*0.25 + 4
treeNodeLayout(l, err, w) ==
    IF err THEN l
    ELSE placeWidget(l, clampWidgetWidthToReqW(l, w.w + TreeNodeMargin[1]
                                                      + TreeNodeMargin[2])
                            + (w.h \div 4 + 4),
                     w.h + TreeNodeMargin[3] + TreeNodeMargin[4])

\* the tree node was never called and never pressed
NoTreeLog ==
    [ everPressed |-> FALSE, called |-> FALSE, pressed |-> FALSE,
      ret |-> FALSE, err |-> FALSE ]

\* ------------------------------------------------------------------------
\* cmdList and Manager.Draw.  A vertex (nine floats of a combo buffer) is
\* one element of comboBuffer; an index counts vertices from 0.
\* ------------------------------------------------------------------------

\* newCmdList
newCmdList ==
    [ comboBuffer |-> << >>, indexBuffer |-> << >>, faceCount |-> 0,
      indexTracker |-> 0, isCustom |-> FALSE ]

\* the loop "if idx > highestIndex { highestIndex = idx }" from 0
HighestIndex(indexInts) ==
    IF indexInts = << >> THEN 0
    ELSE CHOOSE h \in {indexInts[k] : k \in 1..Len(indexInts)} :
             \A k \in 1..Len(indexInts) : indexInts[k] <= h

\* cmdList.AddFaces
AddFaces(cmds, comboFloats, indexInts, faceCount) ==
    IF faceCount < 1 \/ Len(comboFloats) = 0 \/ Len(indexInts) = 0
    THEN cmds
    ELSE [cmds EXCEPT
             !.comboBuffer = @ \o comboFloats,
             !.indexBuffer = @ \o [k \in 1..Len(indexInts) |->
                                       cmds.indexTracker + indexInts[k]],
             !.faceCount = @ + faceCount,
             !.indexTracker = @ + HighestIndex(indexInts) + 1]

\* cmdList.PrefixFaces
PrefixFaces(cmds, comboFloats, indexInts, faceCount) ==
    [cmds EXCEPT
        !.comboBuffer = @ \o comboFloats,
        !.indexBuffer = [k \in 1..Len(indexInts) |->
                             cmds.indexTracker + indexInts[k]] \o @,
        !.faceCount = @ + faceCount,
        !.indexTracker = @ + HighestIndex(indexInts) + 1]

\* cmdList.DrawRectFilledDC: four vertices, two faces; tag tells the
\* rectangles of a frame apart
DrawRectFilledDC(tag) ==
    [ combos |-> << <<tag, 0>>, <<tag, 1>>, <<tag, 2>>, <<tag, 3>> >>,
      indexes |-> <<0, 1, 2, 1, 3, 2>>, fc |-> 2 ]

\* font.CreateText of an empty string: no vertices, no faces
NoFaces == [ combos |-> << >>, indexes |-> << >>, fc |-> 0 ]

\* Window.getFirstCmd: the list of the window afterwards; the command
\* returned is its first element
getFirstCmd(wcmds) ==
    IF Len(wcmds) = 0 THEN << newCmdList >>
    ELSE IF wcmds[1].isCustom THEN << newCmdList >> \o wcmds
    ELSE wcmds

\* Window.addNewCmd: the command returned is the last element
addNewCmd(wcmds) ==
    IF Len(wcmds) = 0 THEN getFirstCmd(wcmds)
    ELSE Append(wcmds, newCmdList)

\* Window.getLastCmd: the command returned is the last element
getLastCmd(wcmds) ==
    IF Len(wcmds) = 0 THEN << newCmdList >>
    ELSE IF wcmds[Len(wcmds)].isCustom THEN addNewCmd(wcmds)
    ELSE wcmds

\* a widget that draws: cmd := wnd.getLastCmd() and then cmd.AddFaces
widgetFaces(wcmds, g) ==
    Bind(getLastCmd(wcmds), LAMBDA c :
        [c EXCEPT ![Len(c)] = AddFaces(@, g.combos, g.indexes, g.fc)])

\* Window.Custom: a new command that is marked custom
Custom(wcmds) ==
    Bind(addNewCmd(wcmds), LAMBDA c : [c EXCEPT ![Len(c)].isCustom = TRUE])

\* what Window.buildFrame draws: the title bar is added to the first
\* command and the background of the window is put in front of it
buildFrameFaces(wcmds, titleBar, background) ==
    Bind(getFirstCmd(wcmds), LAMBDA c :
        [c EXCEPT ![1] = PrefixFaces(
                             AddFaces(@, titleBar.combos, titleBar.indexes,
                                      titleBar.fc),
                             background.combos, background.indexes,
                             background.fc)])

\* the commands of all windows in the order of the loops of Draw
RECURSIVE AllCmds(_)
AllCmds(ws) ==
    IF ws = << >> THEN << >> ELSE Head(ws) \o AllCmds(Tail(ws))

\* Manager.comboBuffer, indexBuffer and faceCount after Construct's reset
NoGeometry ==
    [ comboBuffer |-> << >>, indexBuffer |-> << >>, faceCount |-> 0,
      startIndex |-> 0 ]

\* the first loop of Manager.Draw over the commands that are left
RECURSIVE mergeCmds(_, _)
mergeCmds(cmds, ui) ==
    IF cmds = << >> THEN ui
    ELSE IF Head(cmds).isCustom THEN mergeCmds(Tail(cmds), ui)
    ELSE mergeCmds(Tail(cmds),
             [ comboBuffer |-> ui.comboBuffer \o Head(cmds).comboBuffer,
               indexBuffer |-> ui.indexBuffer \o
                   [k \in 1..Len(Head(cmds).indexBuffer) |->
                        Head(cmds).indexBuffer[k] + ui.startIndex],
               faceCount |-> ui.faceCount + Head(cmds).faceCount,
               startIndex |-> ui.startIndex
                                + HighestIndex(Head(cmds).indexBuffer) + 1 ])

\* the graphics state the host keeps between its own draw calls
HostGfx == [DEPTH_TEST |-> TRUE, SCISSOR_TEST |-> FALSE]

\* Manager.Draw: the buffers of the Manager and the capabilities of the
\* graphics provider when Draw returns
Draw(ws, ui, gfx) ==
    Bind([gfx EXCEPT !.DEPTH_TEST = FALSE, !.SCISSOR_TEST = TRUE], LAMBDA g :
    Bind(mergeCmds(AllCmds(ws), [ui EXCEPT !.startIndex = 0]), LAMBDA merged :
        IF merged.startIndex = 0
        THEN [ui |-> merged, gfx |-> g]
        ELSE [ui |-> merged,
              gfx |-> [g EXCEPT !.SCISSOR_TEST = FALSE, !.DEPTH_TEST = TRUE]]))

\* no frame of the drawing windows was constructed
NoDrawLog ==
    [ phase |-> "idle", cur |-> 0, calls |-> 0, tag |-> 0, frames |-> 0,
      drew |-> FALSE, before |-> HostGfx ]

\* ------------------------------------------------------------------------
\* Window: the range sliders
\* ------------------------------------------------------------------------

\* Go's int(x) of the quotient a / b, b > 0: truncation towards zero
TruncDiv(a, b) == IF a >= 0 THEN a \div b ELSE -((-a) \div b)

\* the clamp of SliderFloat and SliderInt:
\* if tmp > max { tmp = max } else if tmp < min { tmp = min }
sliderClamp(tmp, min, max) ==
    IF tmp > max THEN max ELSE IF tmp < min THEN min ELSE tmp

\* Window.sliderHitTest as it would be if it tested where the mouse is now
\* and did not recognise the slider that already holds the focus
sliderHitTestMouseOver(s, w) ==
    IF s.fontRegistered = FALSE
    THEN [s |-> s, ret |-> FALSE, sliderW |-> 0]
    ELSE Bind(WidgetPos(s, w), LAMBDA pos :
         Bind(GetMouseButtonAction(s, 0), LAMBDA a :
             IF a.ret # MouseUp
             THEN Bind(GetMousePosition(a.s), LAMBDA d :
                  IF InRect(d.ret[1], d.ret[2], pos[1], pos[2], w.w, w.h)
                  THEN Bind(TracedSetActiveInputID(d.s, w.id), LAMBDA c :
                       [s |-> c.s, ret |-> c.ret, sliderW |-> w.w])
                  ELSE [s |-> d.s, ret |-> FALSE, sliderW |-> w.w])
             ELSE [s |-> a.s, ret |-> FALSE, sliderW |-> w.w]))

\* Window.sliderHitTest: (pressed, sliderW)
sliderHitTest(s, w) ==
    IF s.fontRegistered = FALSE
    THEN [s |-> s, ret |-> FALSE, sliderW |-> 0]
    ELSE Bind(WidgetPos(s, w), LAMBDA pos :
         Bind(GetMouseButtonAction(s, 0), LAMBDA a :
             IF a.ret # MouseUp
             THEN IF GetActiveInputID(a.s) = w.id
                  THEN [s |-> a.s, ret |-> TRUE, sliderW |-> w.w]
                  ELSE Bind(GetMouseDownPosition(a.s, 0), LAMBDA d :
                       IF InRect(d.ret[1], d.ret[2], pos[1], pos[2], w.w, w.h)
                       THEN Bind(TracedSetActiveInputID(d.s, w.id), LAMBDA c :
                            [s |-> c.s, ret |-> c.ret, sliderW |-> w.w])
                       ELSE [s |-> d.s, ret |-> FALSE, sliderW |-> w.w])
             ELSE [s |-> a.s, ret |-> FALSE, sliderW |-> w.w]))

\* Window.SliderFloat, the drag update.  The value is a multiple of
\* 1/sliderW and is held as that multiple: delta = mouseDeltaX / sliderW * max
\* is mouseDeltaX * max of these units.
sliderFloatUpdate(valueW, mouseDeltaX, sliderW, min, max) ==
    sliderClamp(valueW + mouseDeltaX * max, min * sliderW, max * sliderW)

\* Window.SliderInt, the drag update, with a clamp at max only
sliderIntUpdateNoLowerClamp(val, mouseDeltaX, sliderW, min, max) ==
    Bind(TruncDiv(val * sliderW + mouseDeltaX * max, sliderW), LAMBDA tmp :
        IF tmp > max THEN max ELSE tmp)

\* Window.SliderInt, the drag update:
\* tmp := int(float32(*value) + mouseDeltaX / sliderW * float32(max))
sliderIntUpdate(val, mouseDeltaX, sliderW, min, max) ==
    sliderClamp(TruncDiv(val * sliderW + mouseDeltaX * max, sliderW), min, max)

\* ------------------------------------------------------------------------
\* Window: the editbox
\* ------------------------------------------------------------------------

\* value[:n] and value[n:] of a Go string
Prefix(str, n) == SubSeq(str, 1, n)
Suffix(str, n) == SubSeq(str, n + 1, Len(str))

\* string(rune): the UTF-8 encoding of a rune below U+0800
RuneToString(r) ==
    IF r < 128 THEN << r >> ELSE << 192 + (r \div 64), 128 + (r % 64) >>

\* what Manager.GetClipboardString returns
clippy == << 120, 121 >>

\* a run-time panic: the program stops where it is
Panic(s) == [s EXCEPT !.panicked = TRUE]

\* case EweyKeyRight
editRight(s) ==
    IF s.activeTextEdit.CursorOffset < Len(s.value)
    THEN [s EXCEPT !.activeTextEdit.CursorOffset = @ + 1] ELSE s

\* case EweyKeyLeft without the test of the cursor offset
editLeftUnbounded(s) == [s EXCEPT !.activeTextEdit.CursorOffset = @ - 1]

\* case EweyKeyLeft
editLeft(s) ==
    IF s.activeTextEdit.CursorOffset > 0
    THEN [s EXCEPT !.activeTextEdit.CursorOffset = @ - 1] ELSE s

\* case EweyKeyBackspace as it would be if it erased at the cursor
editBackspaceAtCursor(s) ==
    LET c == s.activeTextEdit.CursorOffset
    IN  IF c > 0
        THEN IF c > Len(s.value) THEN Panic(s)
             ELSE [s EXCEPT !.value = Prefix(s.value, c) \o Suffix(s.value, c + 1),
                            !.activeTextEdit.CursorOffset = c - 1]
        ELSE s

\* case EweyKeyBackspace: (*value)[:c-1] + (*value)[c:]; a slice bound
\* beyond the string is a run-time panic
editBackspace(s) ==
    LET c == s.activeTextEdit.CursorOffset
    IN  IF c > 0
        THEN IF c > Len(s.value) THEN Panic(s)
             ELSE [s EXCEPT !.value = Prefix(s.value, c - 1) \o Suffix(s.value, c),
                            !.activeTextEdit.CursorOffset = c - 1]
        ELSE s

\* case EweyKeyDelete: (*value)[:c] + (*value)[c+1:]
editDelete(s) ==
    LET c == s.activeTextEdit.CursorOffset
    IN  IF c < Len(s.value)
        THEN [s EXCEPT !.value = Prefix(s.value, c) \o Suffix(s.value, c + 1)]
        ELSE s

\* case EweyKeyEnter, EweyKeyEscape as it would be without ClearActiveInputID
editReleaseKeepsInputID(s) == clearActiveTextEditor(s)

\* case EweyKeyEnter, EweyKeyEscape
editRelease(s) == ClearActiveInputID(clearActiveTextEditor(s))

\* (*value)[:c] + str + (*value)[c:], the cursor advanced by adv
editInsert(s, str, adv) ==
    LET c == s.activeTextEdit.CursorOffset
    IN  IF c > Len(s.value) THEN Panic(s)
        ELSE [s EXCEPT !.value = Prefix(s.value, c) \o str \o Suffix(s.value, c),
                       !.activeTextEdit.CursorOffset = c + adv]

\* The body of the loop "for _, event := range keyEvents" of Window.Editbox
\* for one event.  editorState is a pointer to the Manager's textEditState,
\* so it is nil exactly when Enter or Escape cleared it in this loop.
EditboxKey(s, event) ==
    IF s.activeTextEdit.set = FALSE
    THEN Panic(s)
    ELSE IF event.IsRune = FALSE
    THEN CASE event.KeyCode = EweyKeyRight -> editRight(s)
           [] event.KeyCode = EweyKeyLeft -> editLeft(s)
           [] event.KeyCode = EweyKeyBackspace -> editBackspace(s)
           [] event.KeyCode = EweyKeyDelete -> editDelete(s)
           [] event.KeyCode \in {EweyKeyEnter, EweyKeyEscape} -> editRelease(s)
           [] event.KeyCode = EweyKeyEnd ->
                [s EXCEPT !.activeTextEdit.CursorOffset = Len(s.value)]
           [] event.KeyCode = EweyKeyHome ->
                [s EXCEPT !.activeTextEdit.CursorOffset = 0]
           [] event.KeyCode = EweyKeyInsert ->
                IF event.ShiftDown THEN editInsert(s, clippy, 0) ELSE s
           [] OTHER -> s
    ELSE IF event.Rune = 86 /\ event.CtrlDown
         THEN editInsert(s, clippy, 0)
         ELSE editInsert(s, RuneToString(event.Rune), 1)

\* the whole loop over the drained events; a panic ends it
RECURSIVE EditboxKeys(_, _)
EditboxKeys(s, keyEvents) ==
    IF keyEvents = << >> \/ s.panicked
    THEN s
    ELSE Bind(EditboxKey(s, Head(keyEvents)), LAMBDA s1 :
              EditboxKeys(s1, Tail(keyEvents)))

\* The first part of Window.Editbox: a press inside the editbox claims the
\* input focus and then the text editor, whatever the first claim returned.
EditboxClaim(s, w) ==
    Bind(WidgetPos(s, w), LAMBDA pos :
    Bind(GetMouseButtonAction(s, 0), LAMBDA a :
        IF a.ret # MouseUp /\ GetActiveInputID(a.s) # w.id
        THEN Bind(GetMouseDownPosition(a.s, 0), LAMBDA d :
             IF InRect(d.ret[1], d.ret[2], pos[1], pos[2], w.w, w.h)
             THEN Bind(TracedSetActiveInputID(d.s, w.id), LAMBDA c :
                       TracedSetActiveTextEditor(c.s, w.id, 0).s)
             ELSE d.s)
        ELSE a.s))

\* Window.Editbox that takes the key events off the queue also when it is
\* not the active editor
EditboxAlwaysDrains(s, w) ==
    IF s.fontRegistered = FALSE
    THEN [s |-> s, pressed |-> FALSE, err |-> TRUE, test |-> buttonNoAction]
    ELSE Bind(EditboxClaim(s, w), LAMBDA s1 :
         Bind(getActiveTextEditor(s1), LAMBDA editorState :
             [ s |-> IF editorState.set /\ editorState.ID = w.id
                     THEN Bind(GetKeyEvents(s1), LAMBDA k : EditboxKeys(k.s, k.ret))
                     ELSE GetKeyEvents(s1).s,
               pressed |-> TRUE, err |-> FALSE, test |-> buttonNoAction ]))

\* Window.Editbox: the focus claim and the key events.  (The blink timer
\* and the emitted geometry do not reach the state modelled here.)
Editbox(s, w) ==
    IF s.fontRegistered = FALSE
    THEN [s |-> s, pressed |-> FALSE, err |-> TRUE, test |-> buttonNoAction]
    ELSE Bind(EditboxClaim(s, w), LAMBDA s1 :
         Bind(getActiveTextEditor(s1), LAMBDA editorState :
             [ s |-> IF editorState.set /\ editorState.ID = w.id
                     THEN Bind(GetKeyEvents(s1), LAMBDA k : EditboxKeys(k.s, k.ret))
                     ELSE s1,
               pressed |-> TRUE, err |-> FALSE, test |-> buttonNoAction ]))

\* ------------------------------------------------------------------------
\* The program: platform callbacks between frames, then one frame at a time
\* Manager.Construct, Window.construct, the build callback's widget calls.
\* ------------------------------------------------------------------------

\* the keys and runes the platform delivers
KeyCodes == {EweyKeyEnter}
Runes == {97}

\* no widget call has returned yet in this frame
NoResult == [id |-> "", kind |-> "", pressed |-> FALSE, err |-> FALSE,
             test |-> buttonNoAction]

\* history of the platform's button before the first frame: the button is
\* up and was never pressed
NoEdge ==
    [ raw |-> "Release",       \* what GLFW reported in the latest frame
      pressed |-> FALSE,       \* the latest frame saw Release -> Press
      released |-> FALSE,      \* the latest frame saw Press -> Release
      lastDown |-> UnixEpoch,  \* frame time of the latest Release -> Press
      prevDown |-> UnixEpoch,  \* frame time of the one before it
      downPos |-> <<-1, -1>>,  \* mouse position in the frame of lastDown
      downLoc |-> InitLocation,\* Window.Location in the frame of lastDown
      prevFrame |-> ZeroTime,  \* FrameStart of the frame before the latest
      owner |-> "" ]           \* activeInputID when the latest frame began

\* what the polls of one button saw before the first poll
NoHist ==
    [ raw |-> "Release",       \* what the latest poll of GLFW reported
      polledAt |-> ZeroTime,   \* FrameStart of the latest poll
      pressed |-> FALSE,       \* the latest poll saw Release -> Press
      released |-> FALSE,      \* the latest poll saw Press -> Release
      lastDown |-> UnixEpoch,  \* frame time of the latest Release -> Press
      prevDown |-> UnixEpoch,  \* frame time of the one before it
      presses |-> 0,           \* how many Release -> Press were polled
      downPos |-> <<-1, -1>>,  \* mouse position in the frame of lastDown
      firstRet |-> -1,         \* what the first GetMouseButtonAction of
                               \* this frame returned (-1: not called yet)
      cleared |-> FALSE ]      \* ClearMouseButtonAction ran in this frame

\* no scroll event and no drain yet
NoScrollLog == [events |-> 0, drained |-> 0, n |-> 0, lastDrain |-> 0]

\* no construct pass of the window yet
NoScrollPass ==
    [ before |-> 0,            \* ScrollOffset when the pass began
      atClamp |-> 0,           \* ScrollOffset after the build callback
      total |-> 0 ]            \* totalControlHeightDC of the pass

\* no Editbox call of the current pass has consumed key events
NoKeyLog ==
    [ consumed |-> FALSE,      \* the editbox was the active text editor
      batch |-> << >>,         \* the events GetKeyEvents returned
      value |-> << >>,         \* the bound string before the events
      cursor |-> 0 ]           \* CursorOffset before the events

\* no slider has applied a drag update yet
NoSliderLog ==
    [ k \in {"SliderFloat", "SliderInt"} |->
        [ applied |-> FALSE,   \* the slider has applied a drag update
          frame |-> ZeroTime,  \* FrameStart of the latest update
          before |-> 0,        \* the bound value before the latest update
          delta |-> 0 ] ]      \* mouseDeltaX of the latest update

\* no frame yet
NoMouseLog ==
    [ frames |-> 0,            \* how many frames have started (capped at 2)
      cursor |-> <<-1, -1>>,   \* the mouse position of the current frame
      prev |-> <<-1, -1>> ]    \* the mouse position of the frame before

\* ------------------------------------------------------------------------
\* Manager: the list of windows
\* ------------------------------------------------------------------------

\* newWindow: a window with the given ID; n tells the windows of one ID
\* apart (it is the window's address)
newWindow(id, n) == [ID |-> id, n |-> n]

\* the nil *Window
NilWindow == [ID |-> "", n |-> 0]

\* the elements of a slice ws: the first len elements of its array
WindowList(ws) == SubSeq(ws.array, 1, ws.len)

\* append(ui.windows, wnd): the element goes into the backing array when
\* it has room behind the slice, otherwise into a longer copy
appendWindow(ws, wnd) ==
    IF ws.len < Len(ws.array)
    THEN [array |-> [ws.array EXCEPT ![ws.len + 1] = wnd], len |-> ws.len + 1]
    ELSE [array |-> Append(ws.array, wnd), len |-> ws.len + 1]

\* Manager.GetWindow: the first window with the ID, or nil
RECURSIVE GetWindowFrom(_, _, _)
GetWindowFrom(ws, id, i) ==
    IF i > ws.len THEN NilWindow
    ELSE IF ws.array[i].ID = id THEN ws.array[i]
    ELSE GetWindowFrom(ws, id, i + 1)

GetWindow(ws, id) == GetWindowFrom(ws, id, 1)

\* Manager.RemoveWindow that compares the windows instead of their IDs
RemoveWindowSameObject(ws, wndToRemove) ==
    LET kept == SelectSeq(WindowList(ws), LAMBDA w : w # wndToRemove)
    IN  [ array |-> kept \o SubSeq(ws.array, Len(kept) + 1, Len(ws.array)),
          len |-> Len(kept) ]

\* the loop of Manager.RemoveWindow: filtered shares the backing array of
\* ui.windows, so a kept window is written to the slot behind the kept
\* ones while the range reads on at read; n is the length the range began
\* with
RECURSIVE removeLoop(_, _, _, _, _)
removeLoop(array, n, id, read, kept) ==
    IF read > n THEN [array |-> array, len |-> kept]
    ELSE IF array[read].ID # id
    THEN removeLoop([array EXCEPT ![kept + 1] = array[read]], n, id,
                    read + 1, kept + 1)
    ELSE removeLoop(array, n, id, read + 1, kept)

\* Manager.RemoveWindow
RemoveWindow(ws, wndToRemove) ==
    removeLoop(ws.array, ws.len, wndToRemove.ID, 1, 0)

\* Manager.Construct is not looping over the windows
NoLoop == [active |-> FALSE, i |-> 1, n |-> 0]

\* no Construct has looped over the windows yet
NoPass == [done |-> FALSE, start |-> << >>, visited |-> << >>,
           removed |-> {}, end |-> << >>]

\* no call has used the list yet
NoMgrLog == [op |-> "", before |-> << >>, arg |-> NilWindow, seen |-> << >>]

\* the state after NewManager, SetInputHandlers and NewWindow, with the
\* IsScrollable the application gives the window
Setup(scrollable) ==
    /\ now = StartTime
    /\ glfwButton = [b \in Buttons |-> "Release"]
    /\ glfwPolls = [b \in Buttons |-> 0]
    /\ scrollWheelDelta = 0
    /\ scrollWheelCache = 0
    /\ hist = [b \in Buttons |-> NoHist]
    /\ scrollLog = NoScrollLog
    /\ mouseLog = NoMouseLog
    /\ glfwCursor = <<9, 8>>
    /\ FrameStart = ZeroTime
    /\ activeInputID = ""
    /\ activeTextEdit = NilEditor
    /\ fontRegistered \in BOOLEAN
    /\ mouseButtonTracker = [b \in {} |-> ZeroMouseButtonData]
    /\ needsMousePosCheck = TRUE
    /\ lastMouse = <<-1, -1>>
    /\ lastDelta = <<-1, -1>>
    /\ keyBuffer = << >>
    /\ Location = InitLocation
    /\ IsMoveable \in BOOLEAN
    /\ IsScrollable = scrollable
    /\ ScrollOffset = 0
    /\ scrollPass = NoScrollPass
    /\ value = << >>
    /\ pc = "idle"
    /\ callIndex = 1
    /\ lmbDown = FALSE
    /\ panicked = FALSE
    /\ calls = << >>
    /\ result = NoResult
    /\ pressedLog = << >>
    /\ edge = NoEdge
    /\ keyLog = NoKeyLog
    /\ widgetCursorDC = <<0, 0>>
    /\ nextRowCursorOffsetDC = 0
    /\ requestedItemWidthMinDC = 0
    /\ requestedItemWidthMaxDC = 0
    /\ indentLevel = 0
    /\ layoutLog = NoLayoutLog
    /\ windows = [array |-> << newWindow(WindowID, 1) >>, len |-> 1]
    /\ created = 1
    /\ rangeLoop = NoLoop
    /\ pass = NoPass
    /\ mgrLog = NoMgrLog
    /\ value2 = << >>
    /\ keyLog2 = NoKeyLog
    /\ intStorage = NoInts
    /\ treeLog = NoTreeLog
    /\ wndCmds = << >>
    /\ uiGeometry = NoGeometry
    /\ gfxEnabled = HostGfx
    /\ drawLog = NoDrawLog

\* the state record s becomes the next state
Commit(s) ==
    /\ now' = s.now
    /\ glfwButton' = s.glfwButton
    /\ glfwCursor' = s.glfwCursor
    /\ FrameStart' = s.FrameStart
    /\ activeInputID' = s.activeInputID
    /\ activeTextEdit' = s.activeTextEdit
    /\ fontRegistered' = s.fontRegistered
    /\ mouseButtonTracker' = s.mouseButtonTracker
    /\ needsMousePosCheck' = s.needsMousePosCheck
    /\ lastMouse' = s.lastMouse
    /\ lastDelta' = s.lastDelta
    /\ keyBuffer' = s.keyBuffer
    /\ Location' = s.Location
    /\ value' = s.value
    /\ panicked' = s.panicked
    /\ calls' = s.calls
    /\ glfwPolls' = s.glfwPolls
    /\ scrollWheelDelta' = s.scrollWheelDelta
    /\ scrollWheelCache' = s.scrollWheelCache
    /\ ScrollOffset' = s.ScrollOffset

\* the key events buffered by the platform callbacks do not change what
\* else the program holds
KeyBuffered ==
    /\ calls' = << >>
    /\ UNCHANGED << now, glfwButton, glfwCursor, FrameStart, activeInputID,
                    activeTextEdit, fontRegistered, mouseButtonTracker,
                    needsMousePosCheck, lastMouse, lastDelta, Location,
                    IsMoveable, value, pc, callIndex, lmbDown, panicked, result,
                    pressedLog, edge, glfwPolls, scrollWheelDelta,
                    scrollWheelCache, inputObs, IsScrollable, ScrollOffset,
                    scrollPass, sliderVars, keyLog, styleVars, managerVars, drawVars, treeVars, pairVars, layoutVars >>

\* the callback of window.SetKeyCallback for a key of the translation table
\* pressed with or without Shift
KeyCallbackMods(code, shift) ==
    /\ pc = "idle" /\ ~panicked
    /\ Len(keyBuffer) < MaxKeys
    /\ (code = EweyKeyInsert /\ shift) => Len(value) + Len(keyBuffer) < MaxLen
    /\ keyBuffer' = Append(keyBuffer,
           [IsRune |-> FALSE, Rune |-> 0, KeyCode |-> code,
            ShiftDown |-> shift, CtrlDown |-> FALSE])
    /\ KeyBuffered

\* the callback of window.SetKeyCallback for a key of the translation table
KeyCallback(code) == KeyCallbackMods(code, FALSE)

\* the callback of window.SetKeyCallback for Ctrl+V, which is not in the
\* translation table: it is buffered as the rune 'V' with CtrlDown
PasteKeyCallback ==
    /\ pc = "idle" /\ ~panicked
    /\ Len(keyBuffer) < MaxKeys
    /\ Len(value) + Len(keyBuffer) < MaxLen
    /\ keyBuffer' = Append(keyBuffer,
           [IsRune |-> TRUE, Rune |-> 86, KeyCode |-> 0,
            ShiftDown |-> FALSE, CtrlDown |-> TRUE])
    /\ KeyBuffered

\* the callback of window.SetCharModsCallback
CharModsCallback(char) ==
    /\ pc = "idle" /\ ~panicked
    /\ Len(keyBuffer) < MaxKeys
    /\ Len(value) + Len(keyBuffer) < MaxLen
    /\ keyBuffer' = Append(keyBuffer,
           [IsRune |-> TRUE, Rune |-> char, KeyCode |-> 0,
            ShiftDown |-> FALSE, CtrlDown |-> FALSE])
    /\ KeyBuffered

\* Manager.Construct up to the loop over the windows.  d is the time since
\* the previous frame; button and cursor are what GLFW reports in this frame.
Construct(d, button, cursor) ==
    /\ pc = "idle" /\ ~panicked
    /\ now + d <= MaxTime
    /\ \E s0 \in {[St EXCEPT !.now = now + d, !.FrameStart = now + d,
                            !.glfwButton[0] = button, !.glfwCursor = cursor,
                            !.glfwPolls = [b \in Buttons |-> 0],
                            \* the frame start callback of SetInputHandlers
                            !.needsMousePosCheck = TRUE]} :
       \E s1 \in {GetMousePosition(s0).s} :
       \E sc \in {GetScrollWheelDelta(s1, FALSE)} :
       \E a \in {GetMouseButtonAction(sc.s, 0)} :
       \E isDown \in {button = "Press" /\ edge.raw = "Release"} :
           /\ Commit(IF a.ret # MouseDown THEN ClearActiveInputID(a.s) ELSE a.s)
           /\ edge' = [raw |-> button,
                       pressed |-> isDown,
                       released |-> button = "Release" /\ edge.raw = "Press",
                       lastDown |-> IF isDown THEN now + d ELSE edge.lastDown,
                       prevDown |-> IF isDown THEN edge.lastDown ELSE edge.prevDown,
                       downPos |-> IF isDown THEN s1.lastMouse ELSE edge.downPos,
                       downLoc |-> IF isDown THEN Location ELSE edge.downLoc,
                       prevFrame |-> FrameStart,
                       owner |-> activeInputID]
           /\ pressedLog' = IF isDown THEN << >> ELSE pressedLog
           /\ scrollLog' = [scrollLog EXCEPT !.drained = @ + sc.ret,
                                             !.lastDrain = sc.ret]
    /\ pc' = "begin"
    /\ result' = NoResult
    /\ UNCHANGED << keyLog, sliderVars, styleVars, managerVars, drawVars, treeVars, pairVars, layoutVars, IsMoveable, IsScrollable, lmbDown, callIndex, hist,
                    mouseLog, scrollPass >>

\* Window.construct: the scroll wheel moves the contents
scrollByWheel(s) ==
    Bind(GetScrollWheelDelta(s, TRUE), LAMBDA w :
        [w.s EXCEPT !.ScrollOffset =
            IF @ - w.ret < 0 THEN 0 ELSE @ - w.ret])

\* Window.construct without the reset of a window whose controls fit
clampScrollOffsetNoReset(s, totalControlHeightDC) ==
    IF IsScrollable /\ totalControlHeightDC - wndDisplaySize[2] > 0
       /\ s.ScrollOffset > totalControlHeightDC - wndDisplaySize[2]
    THEN [s EXCEPT !.ScrollOffset = totalControlHeightDC - wndDisplaySize[2]]
    ELSE s

\* Window.construct after the build callback: the scroll offset is pulled
\* back to the overflow of the controls, or reset when they fit
clampScrollOffset(s, totalControlHeightDC) ==
    LET controlHeightOverflow == totalControlHeightDC - wndDisplaySize[2]
    IN  IF IsScrollable /\ controlHeightOverflow > 0
           /\ s.ScrollOffset > controlHeightOverflow
        THEN [s EXCEPT !.ScrollOffset = controlHeightOverflow]
        ELSE IF controlHeightOverflow < 0
        THEN [s EXCEPT !.ScrollOffset = 0]
        ELSE s

\* Window.construct up to the build callback: the locals it captures and
\* the scroll wheel
WindowBegin ==
    /\ pc = "begin" /\ ~panicked
    /\ \E s0 \in {St} :
       \E m \in {GetMousePosition(s0)} :
       \E e \in {GetMousePositionDelta(m.s)} :
       \E a \in {GetMouseButtonAction(e.s, 0)} :
       \E s1 \in {IF IsScrollable /\ ContainsPosition(a.s, m.ret[1], m.ret[2])
                  THEN scrollByWheel(a.s) ELSE a.s} :
           /\ Commit(s1)
           /\ lmbDown' = (a.ret = MouseDown)
           /\ CommitLayout(resetCursor(Lay, s1.ScrollOffset,
                               GetFrameSize(s1)[4] - wndDisplaySize[2]))
    /\ layoutLog' = NoLayoutLog
    /\ scrollPass' = [scrollPass EXCEPT !.before = ScrollOffset]
    /\ pc' = "build"
    /\ callIndex' = 1
    /\ UNCHANGED << keyLog, sliderVars, styleVars, managerVars, drawVars, treeVars, pairVars, IsMoveable, IsScrollable,
                    result, pressedLog, edge, inputObs >>

\* where the frame continues after the widget call at position i
AfterCall(i) ==
    IF i = Len(OnBuild)
    THEN pc' = "end" /\ callIndex' = 1
    ELSE pc' = "build" /\ callIndex' = i + 1

\* one call of Window.Button for the button w
ButtonStep(w) ==
    /\ \E s0 \in {St} :
       \E r \in {Button(s0, w)} :
           /\ Commit(r.s)
           /\ result' = [id |-> w.id, kind |-> w.kind, pressed |-> r.pressed,
                         err |-> r.err, test |-> r.test]
           /\ pressedLog' = IF r.pressed THEN Append(pressedLog, w.id) ELSE pressedLog
           /\ LaidOut("Button", r.err, buttonLayout(Lay, r.err, w), w.w,
                      w.h + ButtonMargin[3] + ButtonMargin[4])
    /\ UNCHANGED << keyLog, sliderVars, styleVars, managerVars, drawVars, treeVars, pairVars, IsMoveable, IsScrollable,
                    lmbDown, edge, inputObs, scrollPass >>

\* the build callback calls Window.Button
ButtonCall ==
    /\ pc = "build" /\ ~panicked
    /\ OnBuild[callIndex].kind = "Button"
    /\ ButtonStep(OnBuild[callIndex])
    /\ AfterCall(callIndex)

\* one call of Window.Editbox for the box w
EditboxStep(w) ==
    /\ \E s0 \in {St} :
       \E r \in {Editbox(s0, w)} :
       \E s1 \in {IF s0.fontRegistered THEN EditboxClaim(s0, w) ELSE s0} :
           /\ Commit(r.s)
           /\ result' = [id |-> w.id, kind |-> w.kind, pressed |-> r.pressed,
                         err |-> r.err, test |-> r.test]
           /\ keyLog' = IF /\ s0.fontRegistered
                           /\ s1.activeTextEdit.set
                           /\ s1.activeTextEdit.ID = w.id
                        THEN [ consumed |-> TRUE, batch |-> s1.keyBuffer,
                               value |-> s1.value,
                               cursor |-> s1.activeTextEdit.CursorOffset ]
                        ELSE NoKeyLog
           /\ LaidOut("Editbox", r.err \/ r.s.panicked,
                      editboxLayout(Lay, r.err \/ r.s.panicked, w),
                      RestOfRow(Lay, EditboxMargin),
                      w.h + EditboxMargin[3] + EditboxMargin[4])
    /\ UNCHANGED << sliderVars, styleVars, managerVars, drawVars, treeVars, pairVars, IsMoveable, IsScrollable, lmbDown,
                    pressedLog, edge, inputObs, scrollPass >>

\* the build callback calls Window.Editbox
EditboxCall ==
    /\ pc = "build" /\ ~panicked
    /\ OnBuild[callIndex].kind = "Editbox"
    /\ EditboxStep(OnBuild[callIndex])
    /\ AfterCall(callIndex)

\* Window.buildFrame with ShowTitleBar true, as newWindow leaves it: the
\* font is fetched and font.GetRenderSize is called without a nil test;
\* GetRenderSize reads f.Owner, so a nil *Font is a nil pointer dereference.
buildFrame(s) == IF s.fontRegistered THEN s ELSE Panic(s)

\* Window.construct after the build callback: the scroll offset is clamped,
\* the frame is built and a moveable window is dragged.
\* totalControlHeightDC is the height of what the build callback laid out
\* in this frame.
WindowEnd(totalControlHeightDC) ==
    /\ pc = "end" /\ ~panicked
    /\ \E s0 \in {clampScrollOffset(St, totalControlHeightDC)} :
       \E m \in {GetMousePosition(s0)} :
       \E e \in {GetMousePositionDelta(m.s)} :
       \E b \in {buildFrame(e.s)} :
           IF b.panicked
           THEN Commit(b)
           ELSE IF IsMoveable /\ lmbDown /\ ContainsPosition(e.s, m.ret[1], m.ret[2])
           THEN \E c \in {TracedSetActiveInputID(e.s, WindowID)} :
                    IF c.ret \/ GetActiveInputID(c.s) = WindowID
                    THEN Commit([c.s EXCEPT !.Location =
                                   << @[1] + e.ret[1], @[2] + e.ret[2] >>])
                    ELSE Commit(c.s)
           ELSE Commit(e.s)
    /\ scrollPass' = [scrollPass EXCEPT !.total = totalControlHeightDC,
                                        !.atClamp = ScrollOffset]
    /\ keyLog' = NoKeyLog
    /\ keyLog2' = NoKeyLog
    /\ pc' = "idle"
    /\ UNCHANGED << sliderVars, styleVars, managerVars, drawVars, treeVars, value2, layoutVars, IsMoveable,
                    IsScrollable, lmbDown, callIndex, result,
                    pressedLog, edge, inputObs >>

\* a build callback without sliders
NoSliders ==
    /\ sliderMin = 0
    /\ sliderMax = 0
    /\ sliderFloat = 0
    /\ sliderInt = 0
    /\ sliderLog = NoSliderLog

\* the window is as wide as the frames of the model need it, with a style
\* that pads nothing
PlainStyle ==
    /\ Width = wndDisplaySize[1]
    /\ WindowPadding = <<0, 0, 0, 0>>

\* newWindow leaves IsScrollable false
Init == Setup(FALSE) /\ NoSliders /\ PlainStyle

Next ==
    \/ \E code \in KeyCodes : KeyCallback(code)
    \/ \E char \in Runes : CharModsCallback(char)
    \/ \E d \in FrameDeltas, button \in {"Press", "Release"}, cursor \in CursorPoints :
           Construct(d, button, cursor)
    \/ WindowBegin
    \/ ButtonCall
    \/ EditboxCall
    \/ WindowEnd(builtHeight)

Spec == Init /\ [][Next]_vars

\* ------------------------------------------------------------------------
\* The input functions of SetInputHandlers under every call pattern: a
\* Manager without windows whose frames poll the platform, and application
\* code that calls the input functions between the frames.
\* ------------------------------------------------------------------------

MaxInputTime == 19
InputFrameDeltas == {2, 3}
InputCursorPoints == {<<5, 5>>, <<9, 8>>}
MaxScrollEvents == 3
ScrollOffsets == {-1, 1}

\* the history of one button after a call that may have polled it
Observe(h, before, after, b, action) ==
    LET polled == after.glfwPolls[b] > before.glfwPolls[b]
        raw    == after.glfwButton[b]
        isDown == polled /\ raw = "Press" /\ h.raw = "Release"
        isUp   == polled /\ raw = "Release" /\ h.raw = "Press"
    IN  [ raw |-> IF polled THEN raw ELSE h.raw,
          polledAt |-> IF polled THEN after.FrameStart ELSE h.polledAt,
          pressed |-> IF polled THEN isDown ELSE h.pressed,
          released |-> IF polled THEN isUp ELSE h.released,
          lastDown |-> IF isDown THEN after.FrameStart ELSE h.lastDown,
          prevDown |-> IF isDown THEN h.lastDown ELSE h.prevDown,
          presses |-> IF isDown THEN h.presses + 1 ELSE h.presses,
          downPos |-> IF isDown
                      THEN <<after.glfwCursor[1], resY - after.glfwCursor[2]>>
                      ELSE h.downPos,
          firstRet |-> IF h.firstRet = -1 THEN action ELSE h.firstRet,
          cleared |-> h.cleared ]

\* the history of one button when a frame starts
NewFrameHist(h) == [h EXCEPT !.firstRet = -1, !.cleared = FALSE]

\* the variables the input functions do not touch
windowVars ==
    << IsMoveable, IsScrollable, scrollPass, pc, callIndex, lmbDown, result,
       pressedLog, edge, sliderVars, keyLog, styleVars, managerVars, drawVars, treeVars, pairVars, layoutVars >>

\* Manager.Construct of a Manager that holds no window.  raw and cursor are
\* what GLFW reports from this frame on.
InputFrame(d, raw, cursor) ==
    /\ pc = "idle"
    /\ now + d <= MaxInputTime
    /\ \E s0 \in {[St EXCEPT !.now = now + d, !.FrameStart = now + d,
                            !.glfwButton = raw, !.glfwCursor = cursor,
                            !.glfwPolls = [b \in Buttons |-> 0],
                            !.needsMousePosCheck = TRUE]} :
       \E m \in {GetMousePosition(s0)} :
       \E sc \in {GetScrollWheelDelta(m.s, FALSE)} :
       \E a \in {GetMouseButtonAction(sc.s, 0)} :
           /\ Commit(IF a.ret # MouseDown THEN ClearActiveInputID(a.s) ELSE a.s)
           /\ hist' = [b \in Buttons |->
                          IF b = 0
                          THEN Observe(NewFrameHist(hist[b]), s0, a.s, 0, a.ret)
                          ELSE NewFrameHist(hist[b])]
           /\ scrollLog' = [scrollLog EXCEPT !.drained = @ + sc.ret,
                                             !.lastDrain = sc.ret]
           /\ mouseLog' = [frames |-> IF mouseLog.frames = 0 THEN 1 ELSE 2,
                           cursor |-> <<cursor[1], resY - cursor[2]>>,
                           prev |-> mouseLog.cursor]
    /\ UNCHANGED windowVars

\* the callback of window.SetScrollCallback
ScrollCallback(yoff) ==
    /\ pc = "idle"
    /\ scrollLog.n < MaxScrollEvents
    /\ scrollWheelDelta' = scrollWheelDelta + yoff * ScrollSpeed
    /\ scrollLog' = [scrollLog EXCEPT !.events = @ + yoff * ScrollSpeed,
                                      !.n = @ + 1]
    /\ calls' = << >>
    /\ UNCHANGED << now, glfwButton, glfwCursor, FrameStart, activeInputID,
                    activeTextEdit, fontRegistered, mouseButtonTracker,
                    needsMousePosCheck, lastMouse, lastDelta, keyBuffer,
                    Location, ScrollOffset, value, panicked, glfwPolls,
                    scrollWheelCache,
                    hist, mouseLog, windowVars >>

\* application code calls uiman.GetMouseButtonAction(b)
CallGetMouseButtonAction(b) ==
    /\ pc = "idle" /\ FrameStart # ZeroTime
    /\ \E s0 \in {St} :
       \E r \in {GetMouseButtonAction(s0, b)} :
           /\ Commit(r.s)
           /\ hist' = [hist EXCEPT ![b] = Observe(@, s0, r.s, b, r.ret)]
    /\ UNCHANGED << scrollLog, mouseLog, windowVars >>

\* a widget that saw the click calls uiman.ClearMouseButtonAction(b), as
\* Button, Checkbox and TreeNode do after buttonBehavior reported Pressed
CallClearMouseButtonAction(b) ==
    /\ pc = "idle" /\ FrameStart # ZeroTime
    /\ b \in DOMAIN mouseButtonTracker
    /\ mouseButtonTracker[b].lastCheckedAt = FrameStart
    /\ mouseButtonTracker[b].lastAction = MouseClick
    /\ Commit(ClearMouseButtonAction(St, b))
    /\ hist' = [hist EXCEPT ![b].cleared = TRUE]
    /\ UNCHANGED << scrollLog, mouseLog, windowVars >>

\* application code calls uiman.GetMouseDownPosition(b)
CallGetMouseDownPosition(b) ==
    /\ pc = "idle" /\ FrameStart # ZeroTime
    /\ \E s0 \in {St} :
       \E r \in {GetMouseDownPosition(s0, b)} :
           /\ Commit(r.s)
           /\ hist' = [hist EXCEPT ![b] =
                          Observe(@, s0, r.s, b,
                                  r.s.mouseButtonTracker[b].lastAction)]
    /\ UNCHANGED << scrollLog, mouseLog, windowVars >>

\* application code calls uiman.GetMousePosition()
CallGetMousePosition ==
    /\ pc = "idle" /\ FrameStart # ZeroTime
    /\ \E s0 \in {St} :
       \E r \in {GetMousePosition(s0)} :
           /\ Commit(r.s)
    /\ UNCHANGED << hist, scrollLog, mouseLog, windowVars >>

\* application code calls uiman.GetMousePositionDelta()
CallGetMousePositionDelta ==
    /\ pc = "idle" /\ FrameStart # ZeroTime
    /\ \E s0 \in {St} :
       \E r \in {GetMousePositionDelta(s0)} :
           /\ Commit(r.s)
    /\ UNCHANGED << hist, scrollLog, mouseLog, windowVars >>

\* application code calls uiman.GetScrollWheelDelta(useCached)
CallGetScrollWheelDelta(useCached) ==
    /\ pc = "idle" /\ FrameStart # ZeroTime
    /\ \E s0 \in {St} :
       \E r \in {GetScrollWheelDelta(s0, useCached)} :
           /\ Commit(r.s)
           /\ scrollLog' = IF useCached THEN scrollLog
                           ELSE [scrollLog EXCEPT !.drained = @ + r.ret,
                                                  !.lastDrain = r.ret]
    /\ UNCHANGED << hist, mouseLog, windowVars >>

\* a Manager without windows, with the font registered
InputInit == Init /\ fontRegistered /\ IsMoveable

InputNext ==
    \/ \E d \in InputFrameDeltas, raw \in [Buttons -> {"Press", "Release"}],
          cursor \in InputCursorPoints : InputFrame(d, raw, cursor)
    \/ \E b \in Buttons : CallGetMouseButtonAction(b)
    \/ \E b \in Buttons : CallClearMouseButtonAction(b)
    \/ \E b \in Buttons : CallGetMouseDownPosition(b)
    \/ CallGetMousePosition
    \/ CallGetMousePositionDelta

InputSpec == InputInit /\ [][InputNext]_vars

\* ------------------------------------------------------------------------
\* A scrollable window: the scroll wheel, contents of changing height
\* ------------------------------------------------------------------------

\* the time between two frames
ScrollFrameDeltas == {2}

\* window.GetCursorPos: a point inside the window and one outside of it
ScrollCursorPoints == {<<5, 5>>, <<1, 1>>}

\* totalControlHeightDC of what the build callback lays out: less than the
\* display height, exactly the display height, and more
ContentHeights == {builtHeight, wndDisplaySize[2], 16, 30}

\* the application makes the window scrollable (IsScrollable = true)
ScrollInit ==
    Setup(TRUE) /\ NoSliders /\ PlainStyle /\ fontRegistered /\ IsMoveable

ScrollNext ==
    \/ \E d \in ScrollFrameDeltas, cursor \in ScrollCursorPoints :
           Construct(d, "Release", cursor)
    \/ \E yoff \in ScrollOffsets : ScrollCallback(yoff)
    \/ \E useCached \in BOOLEAN : CallGetScrollWheelDelta(useCached)
    \/ WindowBegin
    \/ ButtonCall
    \/ EditboxCall
    \/ \E h \in ContentHeights : WindowEnd(h)

ScrollSpec == ScrollInit /\ [][ScrollNext]_vars

\* ------------------------------------------------------------------------
\* Text editing: every key the editbox reacts to, runes of one and two bytes
\* ------------------------------------------------------------------------

\* the keys of the translation table the editbox reacts to, as
\* << key code, Shift held >>
EditKeys ==
    { << code, FALSE >> : code \in { EweyKeyRight, EweyKeyLeft, EweyKeyBackspace,
                                      EweyKeyDelete, EweyKeyEnter, EweyKeyEscape,
                                      EweyKeyEnd, EweyKeyHome } }
    \cup { << EweyKeyInsert, TRUE >> }

\* the runes typed: 'a', 'b' and U+00E9, whose UTF-8 encoding has two bytes
EditRunes == {97, 98, 233}

\* window.GetCursorPos: the mouse rests over the editbox
EditCursorPoints == {<<9, 5>>}

\* the time between two frames
EditFrameDeltas == {2}

EditInit == Init /\ fontRegistered /\ ~IsMoveable

EditNext ==
    \/ \E k \in EditKeys : KeyCallbackMods(k[1], k[2])
    \/ PasteKeyCallback
    \/ \E char \in EditRunes : CharModsCallback(char)
    \/ \E d \in EditFrameDeltas, button \in {"Press", "Release"},
          cursor \in EditCursorPoints : Construct(d, button, cursor)
    \/ WindowBegin
    \/ ButtonCall
    \/ EditboxCall
    \/ WindowEnd(builtHeight)

EditSpec == EditInit /\ [][EditNext]_vars

\* ------------------------------------------------------------------------
\* A build callback with two editboxes
\* ------------------------------------------------------------------------

\* the two editboxes, in call order, each bound to a string of its own
PairBuild ==
    << [kind |-> "Editbox", id |-> "E", dx |-> 6, dy |-> -2, w |-> 3, h |-> 2],
       [kind |-> "Editbox", id |-> "F", dx |-> 1, dy |-> -2, w |-> 3, h |-> 2] >>

\* the keys and the rune the platform delivers
PairKeys == {EweyKeyBackspace, EweyKeyHome}
PairRunes == {97}

\* window.GetCursorPos: over the editbox F, over the editbox E
PairCursorPoints == {<<5, 5>>, <<9, 5>>}

\* the time between two frames
PairFrameDeltas == {2}

\* one call of Window.Editbox for the box w with the second string
SecondEditboxStep(w) ==
    /\ \E s0 \in {[St EXCEPT !.value = value2]} :
       \E r \in {Editbox(s0, w)} :
       \E s1 \in {IF s0.fontRegistered THEN EditboxClaim(s0, w) ELSE s0} :
           /\ Commit([r.s EXCEPT !.value = value])
           /\ value2' = r.s.value
           /\ result' = [id |-> w.id, kind |-> w.kind, pressed |-> r.pressed,
                         err |-> r.err, test |-> r.test]
           /\ keyLog2' = IF /\ s0.fontRegistered
                            /\ s1.activeTextEdit.set
                            /\ s1.activeTextEdit.ID = w.id
                         THEN [ consumed |-> TRUE, batch |-> s1.keyBuffer,
                                value |-> s1.value,
                                cursor |-> s1.activeTextEdit.CursorOffset ]
                         ELSE NoKeyLog
           /\ LaidOut("Editbox", r.err \/ r.s.panicked,
                      editboxLayout(Lay, r.err \/ r.s.panicked, w),
                      RestOfRow(Lay, EditboxMargin),
                      w.h + EditboxMargin[3] + EditboxMargin[4])
    /\ UNCHANGED << keyLog, sliderVars, styleVars, managerVars, drawVars, treeVars, IsMoveable,
                    IsScrollable, lmbDown, pressedLog, edge, inputObs,
                    scrollPass >>

\* the build callback calls Window.Editbox for E
FirstEditboxCall ==
    /\ pc = "build" /\ ~panicked
    /\ callIndex = 1
    /\ EditboxStep(PairBuild[1])
    /\ pc' = "build"
    /\ callIndex' = 2

\* the build callback calls Window.Editbox for F
SecondEditboxCall ==
    /\ pc = "build" /\ ~panicked
    /\ callIndex = 2
    /\ SecondEditboxStep(PairBuild[2])
    /\ pc' = "end"
    /\ callIndex' = 1

PairInit == Init /\ fontRegistered /\ ~IsMoveable

PairNext ==
    \/ \E code \in PairKeys : KeyCallback(code)
    \/ \E char \in PairRunes : CharModsCallback(char)
    \/ \E d \in PairFrameDeltas, button \in {"Press", "Release"},
          cursor \in PairCursorPoints : Construct(d, button, cursor)
    \/ WindowBegin
    \/ FirstEditboxCall
    \/ SecondEditboxCall
    \/ WindowEnd(builtHeight)

PairSpec == PairInit /\ [][PairNext]_vars

\* ------------------------------------------------------------------------
\* A window with a SliderFloat and a SliderInt
\* ------------------------------------------------------------------------

\* the sliders the build callback emits, side by side in one row; w is
\* the sliderW of sliderHitTest
SliderWidgets ==
    [ SliderFloat |-> [kind |-> "SliderFloat", id |-> "SF", dx |-> 1, dy |-> -2,
                       w |-> 4, h |-> 2],
      SliderInt   |-> [kind |-> "SliderInt", id |-> "SI", dx |-> 5, dy |-> -2,
                       w |-> 4, h |-> 2] ]

\* the (min, max) the build callback passes to both sliders
SliderRanges == {<<0, 4>>, <<2, 4>>, <<-4, 4>>, <<-4, 0>>}

\* the values the application binds: min, and one on either side outside
\* of every range
SliderStartValues(range) == {range[1], -6, 7}

\* window.GetCursorPos: over the SliderFloat, over the SliderInt, and
\* beyond the window
SliderCursorPoints == {<<5, 5>>, <<6, 5>>, <<9, 5>>, <<13, 5>>}

\* the time between two frames
SliderFrameDeltas == {2}

\* one call of Window.SliderFloat
SliderFloatStep ==
    /\ \E s0 \in {St} :
       \E h \in {sliderHitTest(s0, SliderWidgets.SliderFloat)} :
       \E e \in {IF h.ret THEN GetMousePositionDelta(h.s)
                  ELSE [s |-> h.s, ret |-> <<0, 0>>]} :
           /\ Commit(e.s)
           /\ sliderFloat' =
                 IF h.ret
                 THEN sliderFloatUpdate(sliderFloat, e.ret[1], h.sliderW,
                                        sliderMin, sliderMax)
                 ELSE sliderFloat
           /\ sliderLog' =
                 IF h.ret
                 THEN [sliderLog EXCEPT !.SliderFloat =
                          [applied |-> TRUE, frame |-> FrameStart,
                           before |-> sliderFloat,
                           delta |-> e.ret[1]]]
                 ELSE sliderLog
           /\ LaidOut("SliderFloat", ~s0.fontRegistered,
                      sliderLayout(Lay, ~s0.fontRegistered,
                                   SliderWidgets.SliderFloat),
                      RestOfRow(Lay, SliderMargin),
                      SliderWidgets.SliderFloat.h + SliderMargin[3]
                                                  + SliderMargin[4])
    /\ UNCHANGED << keyLog, sliderMin, sliderMax, sliderInt, styleVars, managerVars, drawVars, treeVars, pairVars,
                    IsMoveable, IsScrollable,
                    lmbDown, result, pressedLog, edge, inputObs, scrollPass >>

\* the build callback calls Window.SliderFloat
SliderFloatCall ==
    /\ pc = "build" /\ ~panicked
    /\ callIndex = 1
    /\ SliderFloatStep
    /\ pc' = "build"
    /\ callIndex' = 2

\* one call of Window.SliderInt
SliderIntStep ==
    /\ \E s0 \in {St} :
       \E h \in {sliderHitTest(s0, SliderWidgets.SliderInt)} :
       \E e \in {IF h.ret THEN GetMousePositionDelta(h.s)
                  ELSE [s |-> h.s, ret |-> <<0, 0>>]} :
           /\ Commit(e.s)
           /\ sliderInt' =
                 IF h.ret
                 THEN sliderIntUpdate(sliderInt, e.ret[1], h.sliderW,
                                      sliderMin, sliderMax)
                 ELSE sliderInt
           /\ sliderLog' =
                 IF h.ret
                 THEN [sliderLog EXCEPT !.SliderInt =
                          [applied |-> TRUE, frame |-> FrameStart,
                           before |-> sliderInt,
                           delta |-> e.ret[1]]]
                 ELSE sliderLog
           /\ LaidOut("SliderInt", ~s0.fontRegistered,
                      sliderLayout(Lay, ~s0.fontRegistered,
                                   SliderWidgets.SliderInt),
                      RestOfRow(Lay, SliderMargin),
                      SliderWidgets.SliderInt.h + SliderMargin[3]
                                                + SliderMargin[4])
    /\ UNCHANGED << keyLog, sliderMin, sliderMax, sliderFloat, styleVars, managerVars, drawVars, treeVars, pairVars,
                    IsMoveable, IsScrollable,
                    lmbDown, result, pressedLog, edge, inputObs, scrollPass >>

\* the build callback calls Window.SliderInt
SliderIntCall ==
    /\ pc = "build" /\ ~panicked
    /\ callIndex = 2
    /\ SliderIntStep
    /\ pc' = "end"
    /\ callIndex' = 1

\* the application binds a value to each slider and passes min <= max
SliderInit ==
    /\ Setup(FALSE) /\ PlainStyle /\ fontRegistered /\ IsMoveable
    /\ \E range \in SliderRanges :
           /\ sliderMin = range[1]
           /\ sliderMax = range[2]
           /\ sliderInt \in SliderStartValues(range)
           /\ sliderFloat \in { v * SliderWidgets.SliderFloat.w :
                                   v \in SliderStartValues(range) }
    /\ sliderLog = NoSliderLog

SliderNext ==
    \/ \E d \in SliderFrameDeltas, button \in {"Press", "Release"},
          cursor \in SliderCursorPoints : Construct(d, button, cursor)
    \/ WindowBegin
    \/ SliderFloatCall
    \/ SliderIntCall
    \/ WindowEnd(builtHeight)

SliderSpec == SliderInit /\ [][SliderNext]_vars

\* ------------------------------------------------------------------------
\* A build callback that lays widgets out in rows
\* ------------------------------------------------------------------------

\* the display widths of the window
LayoutWidths == {400}

\* Style.WindowPadding: none, and the padding of DefaultStyle
Paddings == {<<0, 0, 0, 0>>, <<4, 4, 4, 4>>}

\* the fractions the build callback passes to RequestItemWidthMin and
\* RequestItemWidthMax
RequestFractions == {<<1, 2>>, <<3, 2>>}

\* the width and height the font renders the messages of Text with
TextSizes == {<<50, 10>>, <<300, 10>>}

\* the width and height of the images in display pixels
ImageSizes == {<<100, 20>>}

\* the fractions passed to Space
SpaceFractions == {<<1, 10>>}

\* the calls the build callback makes in one pass at most
MaxLayoutCalls == 3

\* window.GetCursorPos: over button A
LayoutCursorPoints == {<<5, 5>>}

\* the time between two frames
LayoutFrameDeltas == {4}

\* the build callback returns after this call or makes another one
CallbackGoesOn ==
    /\ pc = "build" /\ ~panicked
    /\ layoutLog.n < MaxLayoutCalls
    /\ \E last \in (IF layoutLog.n + 1 = MaxLayoutCalls
                     THEN {TRUE} ELSE BOOLEAN) :
           pc' = IF last THEN "end" ELSE "build"
    /\ UNCHANGED callIndex

\* a call that touches the layout of the window only
LayoutOnly ==
    /\ Commit(St)
    /\ UNCHANGED << keyLog, sliderVars, styleVars, managerVars, drawVars, treeVars, pairVars, IsMoveable, IsScrollable,
                    lmbDown, result, pressedLog, edge, inputObs, scrollPass >>

\* the build callback calls Window.Text
TextCall(size) ==
    /\ CallbackGoesOn
    /\ \E r \in {Text(Lay, fontRegistered, size[1], size[2])} :
           LaidOut("Text", r.err, r.l, size[1],
                   size[2] + TextMargin[3] + TextMargin[4])
    /\ LayoutOnly

\* the build callback calls Window.Image
ImageCall(size) ==
    /\ CallbackGoesOn
    /\ \E r \in {Image(Lay, fontRegistered, size[1], size[2])} :
           LaidOut("Image", r.err, r.l, size[1],
                   size[2] + ImageMargin[3] + ImageMargin[4])
    /\ LayoutOnly

\* the build callback calls Window.Space
SpaceCall(spaceS) ==
    /\ CallbackGoesOn
    /\ LaidOut("Space", FALSE, Space(Lay, spaceS), Scaled(spaceS, Width), 0)
    /\ LayoutOnly

\* the build callback calls Window.StartRow
StartRowCall ==
    /\ CallbackGoesOn
    /\ LaidOut("StartRow", FALSE, StartRow(Lay), 0, 0)
    /\ LayoutOnly

\* the build callback calls Window.RequestItemWidthMin
RequestItemWidthMinCall(nextMinWS) ==
    /\ CallbackGoesOn
    /\ CommitLayout(RequestItemWidthMin(Lay, nextMinWS))
    /\ layoutLog' = [ n |-> layoutLog.n + 1, kind |-> "RequestItemWidthMin",
                      err |-> FALSE, before |-> widgetCursorDC,
                      askedMin |-> nextMinWS,
                      pendingMin |-> requestedItemWidthMinDC,
                      pendingMax |-> requestedItemWidthMaxDC, natural |-> 0,
                      drawn |-> 0, afterConsumer |-> ConsumedRequest,
                      heights |-> layoutLog.heights ]
    /\ LayoutOnly

\* the build callback calls Window.RequestItemWidthMax
RequestItemWidthMaxCall(nextMaxWS) ==
    /\ CallbackGoesOn
    /\ CommitLayout(RequestItemWidthMax(Lay, nextMaxWS))
    /\ layoutLog' = [ n |-> layoutLog.n + 1, kind |-> "RequestItemWidthMax",
                      err |-> FALSE, before |-> widgetCursorDC,
                      askedMin |-> <<0, 1>>,
                      pendingMin |-> requestedItemWidthMinDC,
                      pendingMax |-> requestedItemWidthMaxDC, natural |-> 0,
                      drawn |-> 0, afterConsumer |-> ConsumedRequest,
                      heights |-> layoutLog.heights ]
    /\ LayoutOnly

\* the build callback calls Button, Editbox, SliderFloat or SliderInt
\* wherever it likes
PlacedButtonCall(w) == CallbackGoesOn /\ ButtonStep(w)
PlacedEditboxCall(w) == CallbackGoesOn /\ EditboxStep(w)
PlacedSliderFloatCall == CallbackGoesOn /\ SliderFloatStep
PlacedSliderIntCall == CallbackGoesOn /\ SliderIntStep

\* the application chooses the window's width and padding, may or may
\* not register the font, and binds 0 to sliders that range over 0..4
LayoutInit ==
    /\ Setup(FALSE) /\ ~IsMoveable
    /\ Width \in LayoutWidths
    /\ WindowPadding \in Paddings
    /\ sliderMin = 0
    /\ sliderMax = 4
    /\ sliderFloat = 0
    /\ sliderInt = 0
    /\ sliderLog = NoSliderLog

LayoutNext ==
    \/ \E d \in LayoutFrameDeltas, button \in {"Press", "Release"},
          cursor \in LayoutCursorPoints : Construct(d, button, cursor)
    \/ WindowBegin
    \/ \E size \in TextSizes : TextCall(size)
    \/ \E size \in ImageSizes : ImageCall(size)
    \/ \E spaceS \in SpaceFractions : SpaceCall(spaceS)
    \/ StartRowCall
    \/ \E f \in RequestFractions : RequestItemWidthMinCall(f)
    \/ \E f \in RequestFractions : RequestItemWidthMaxCall(f)
    \/ PlacedButtonCall(OnBuild[1])
    \/ PlacedEditboxCall(OnBuild[3])
    \/ PlacedSliderFloatCall
    \/ PlacedSliderIntCall
    \/ WindowEnd(builtHeight)

LayoutSpec == LayoutInit /\ [][LayoutNext]_vars

\* ------------------------------------------------------------------------
\* A build callback that starts rows and indents them
\* ------------------------------------------------------------------------

\* the calls the build callback makes in one pass at most
MaxRowCalls == 4

\* the indent level the build callback reaches at most
MaxIndent == 2

\* a text 10 pixels high and an image 20 pixels high
RowTextSizes == {<<50, 10>>}
RowImageSizes == {<<100, 20>>}

RowCursorPoints == {<<5, 5>>}
RowFrameDeltas == {4}

\* the build callback makes one more call and then returns or goes on
RowCallbackGoesOn ==
    /\ pc = "build" /\ ~panicked
    /\ layoutLog.n < MaxRowCalls
    /\ \E last \in (IF layoutLog.n + 1 = MaxRowCalls
                     THEN {TRUE} ELSE BOOLEAN) :
           pc' = IF last THEN "end" ELSE "build"
    /\ UNCHANGED callIndex

\* the build callback calls Window.Text
RowTextCall(size) ==
    /\ RowCallbackGoesOn
    /\ \E r \in {Text(Lay, fontRegistered, size[1], size[2])} :
           LaidOut("Text", r.err, r.l, size[1],
                   size[2] + TextMargin[3] + TextMargin[4])
    /\ LayoutOnly

\* the build callback calls Window.Image
RowImageCall(size) ==
    /\ RowCallbackGoesOn
    /\ \E r \in {Image(Lay, fontRegistered, size[1], size[2])} :
           LaidOut("Image", r.err, r.l, size[1],
                   size[2] + ImageMargin[3] + ImageMargin[4])
    /\ LayoutOnly

\* the build callback calls Window.StartRow
RowStartRowCall ==
    /\ RowCallbackGoesOn
    /\ LaidOut("StartRow", FALSE, StartRow(Lay), 0, 0)
    /\ LayoutOnly

\* the build callback calls Window.Indent
IndentCall ==
    /\ RowCallbackGoesOn
    /\ indentLevel < MaxIndent
    /\ LaidOut("Indent", FALSE, Indent(Lay), 0, 0)
    /\ LayoutOnly

\* the build callback calls Window.Unindent
UnindentCall ==
    /\ RowCallbackGoesOn
    /\ LaidOut("Unindent", FALSE, Unindent(Lay), 0, 0)
    /\ LayoutOnly

RowInit ==
    /\ Setup(FALSE) /\ NoSliders /\ ~IsMoveable /\ fontRegistered
    /\ Width \in LayoutWidths
    /\ WindowPadding \in Paddings

RowNext ==
    \/ \E d \in RowFrameDeltas, cursor \in RowCursorPoints :
           Construct(d, "Release", cursor)
    \/ WindowBegin
    \/ \E size \in RowTextSizes : RowTextCall(size)
    \/ \E size \in RowImageSizes : RowImageCall(size)
    \/ RowStartRowCall
    \/ IndentCall
    \/ UnindentCall
    \/ WindowEnd(builtHeight)

RowSpec == RowInit /\ [][RowNext]_vars

\* ------------------------------------------------------------------------
\* A build callback with a tree node
\* ------------------------------------------------------------------------

\* the mouse over the tree node and beside it
TreeCursorPoints == {<<5, 5>>, <<9, 5>>}
TreeFrameDeltas == {1, 5}

\* the build callback calls Window.TreeNode and returns
TreeNodeCall ==
    /\ pc = "build" /\ ~panicked
    /\ \E s0 \in {St} :
       \E r \in {TreeNode(s0, intStorage, TreeWidget)} :
           /\ Commit(r.s)
           /\ intStorage' = r.store
           /\ treeLog' = [ everPressed |-> treeLog.everPressed \/ r.pressed,
                           called |-> TRUE, pressed |-> r.pressed,
                           ret |-> r.ret, err |-> r.err ]
           /\ result' = [id |-> TreeWidget.id, kind |-> TreeWidget.kind,
                         pressed |-> r.pressed, err |-> r.err,
                         test |-> IF r.pressed THEN buttonPressed
                                  ELSE buttonNoAction]
           /\ pressedLog' = IF r.pressed THEN Append(pressedLog, TreeWidget.id)
                            ELSE pressedLog
           /\ LaidOut("TreeNode", r.err, treeNodeLayout(Lay, r.err, TreeWidget),
                      TreeWidget.w, TreeWidget.h + TreeNodeMargin[3]
                                                 + TreeNodeMargin[4])
    /\ pc' = "end"
    /\ UNCHANGED << keyLog, sliderVars, styleVars, managerVars, drawVars, pairVars,
                    IsMoveable, IsScrollable, lmbDown, callIndex, edge,
                    inputObs, scrollPass >>

TreeInit == Init /\ fontRegistered

TreeNext ==
    \/ \E d \in TreeFrameDeltas, button \in {"Press", "Release"},
          cursor \in TreeCursorPoints : Construct(d, button, cursor)
    \/ WindowBegin
    \/ TreeNodeCall
    \/ WindowEnd(builtHeight)

TreeSpec == TreeInit /\ [][TreeNext]_vars

\* ------------------------------------------------------------------------
\* Windows that draw: the commands of a frame and Manager.Draw
\* ------------------------------------------------------------------------

\* the windows that draw, the drawing calls of one build callback and the
\* frames at most
MaxDrawWindows == 2
MaxDrawCalls == 2
MaxDrawFrames == 2

\* NewWindow: one more window, which has no commands yet
NewDrawWindow ==
    /\ drawLog.phase = "idle"
    /\ Len(wndCmds) < MaxDrawWindows
    /\ wndCmds' = Append(wndCmds, << >>)
    /\ UNCHANGED << uiGeometry, gfxEnabled, drawLog, frameVars, managerVars >>

\* Manager.Construct resets the buffers of the Manager; Window.construct
\* of the first window empties its commands
DrawConstruct ==
    /\ drawLog.phase = "idle"
    /\ drawLog.frames < MaxDrawFrames
    /\ uiGeometry' = NoGeometry
    /\ wndCmds' = IF Len(wndCmds) = 0 THEN wndCmds
                  ELSE [wndCmds EXCEPT ![1] = << >>]
    /\ drawLog' = [drawLog EXCEPT
                       !.phase = IF Len(wndCmds) = 0 THEN "idle" ELSE "build",
                       !.cur = IF Len(wndCmds) = 0 THEN 0 ELSE 1,
                       !.calls = 0, !.tag = 0, !.frames = @ + 1,
                       !.drew = FALSE]
    /\ UNCHANGED << gfxEnabled, frameVars, managerVars >>

\* the build callback calls a widget that draws a rectangle (hasFaces) or
\* a Text with an empty string
WidgetDraws(hasFaces) ==
    /\ drawLog.phase = "build"
    /\ drawLog.calls < MaxDrawCalls
    /\ wndCmds' = [wndCmds EXCEPT ![drawLog.cur] =
                       widgetFaces(@, IF hasFaces
                                      THEN DrawRectFilledDC(drawLog.tag)
                                      ELSE NoFaces)]
    /\ drawLog' = [drawLog EXCEPT !.calls = @ + 1, !.tag = @ + 1]
    /\ UNCHANGED << uiGeometry, gfxEnabled, frameVars, managerVars >>

\* the build callback calls Window.Custom
CustomCall ==
    /\ drawLog.phase = "build"
    /\ drawLog.calls < MaxDrawCalls
    /\ wndCmds' = [wndCmds EXCEPT ![drawLog.cur] = Custom(@)]
    /\ drawLog' = [drawLog EXCEPT !.calls = @ + 1]
    /\ UNCHANGED << uiGeometry, gfxEnabled, frameVars, managerVars >>

\* the build callback returned: Window.construct builds the frame, and the
\* loop of Manager.Construct goes to the next window
BuildFrame ==
    /\ drawLog.phase = "build"
    /\ \E last \in {drawLog.cur = Len(wndCmds)} :
           /\ wndCmds' =
                  [k \in 1..Len(wndCmds) |->
                      IF k = drawLog.cur
                      THEN buildFrameFaces(wndCmds[k],
                               DrawRectFilledDC(drawLog.tag),
                               DrawRectFilledDC(drawLog.tag + 1))
                      ELSE IF k = drawLog.cur + 1 THEN << >>
                      ELSE wndCmds[k]]
           /\ drawLog' = [drawLog EXCEPT
                              !.phase = IF last THEN "idle" ELSE "build",
                              !.cur = IF last THEN 0 ELSE @ + 1,
                              !.calls = 0, !.tag = @ + 2]
    /\ UNCHANGED << uiGeometry, gfxEnabled, frameVars, managerVars >>

\* the host calls Manager.Draw, once per frame and also before the first
\* Construct
ManagerDraw ==
    /\ drawLog.phase = "idle"
    /\ ~drawLog.drew
    /\ \E r \in {Draw(wndCmds, uiGeometry, gfxEnabled)} :
           /\ uiGeometry' = r.ui
           /\ gfxEnabled' = r.gfx
    /\ drawLog' = [drawLog EXCEPT !.drew = TRUE, !.before = gfxEnabled]
    /\ UNCHANGED << wndCmds, frameVars, managerVars >>

DrawInit == Init /\ fontRegistered /\ IsMoveable

DrawNext ==
    \/ NewDrawWindow
    \/ DrawConstruct
    \/ \E hasFaces \in BOOLEAN : WidgetDraws(hasFaces)
    \/ CustomCall
    \/ BuildFrame
    \/ ManagerDraw

DrawSpec == DrawInit /\ [][DrawNext]_vars

\* ------------------------------------------------------------------------
\* An application that opens and closes windows
\* ------------------------------------------------------------------------

\* the IDs the application gives its windows
WindowIDs == {WindowID, "X", "Y"}

\* the windows the application creates at most
MaxWindows == 4

\* the windows of the list, as a set
ListedWindows == { windows.array[i] : i \in 1..windows.len }

\* the application calls Manager.NewWindow between two frames
NewWindowCall(id) ==
    /\ ~rangeLoop.active
    /\ created < MaxWindows
    /\ \E wnd \in {newWindow(id, created + 1)} :
           /\ windows' = appendWindow(windows, wnd)
           /\ mgrLog' = [op |-> "NewWindow", before |-> WindowList(windows),
                         arg |-> wnd, seen |-> << >>]
    /\ created' = created + 1
    /\ UNCHANGED << rangeLoop, pass, frameVars, drawVars >>

\* the application calls Manager.RemoveWindow between two frames
RemoveWindowCall(wndToRemove) ==
    /\ ~rangeLoop.active
    /\ windows' = RemoveWindow(windows, wndToRemove)
    /\ mgrLog' = [op |-> "RemoveWindow", before |-> WindowList(windows),
                  arg |-> wndToRemove, seen |-> << >>]
    /\ UNCHANGED << created, rangeLoop, pass, frameVars, drawVars >>

\* Manager.Draw: the loop over ui.windows copies the commands of each
\* window in turn
DrawCall ==
    /\ ~rangeLoop.active
    /\ mgrLog' = [op |-> "Draw", before |-> WindowList(windows),
                  arg |-> NilWindow,
                  seen |-> [i \in 1..windows.len |-> windows.array[i]]]
    /\ UNCHANGED << windows, created, rangeLoop, pass, frameVars, drawVars >>

\* Manager.Construct reaches its loop: the range takes the slice as it is
\* now, its array and its length
ConstructWindows ==
    /\ ~rangeLoop.active
    /\ rangeLoop' = [active |-> windows.len > 0, i |-> 1, n |-> windows.len]
    /\ pass' = [done |-> windows.len = 0, start |-> WindowList(windows),
                visited |-> << >>, removed |-> {},
                end |-> WindowList(windows)]
    /\ mgrLog' = [op |-> "Construct", before |-> WindowList(windows),
                  arg |-> NilWindow, seen |-> << >>]
    /\ UNCHANGED << windows, created, frameVars, drawVars >>

\* one round of the loop: w.construct() for the window in slot i of the
\* array; its build callback calls RemoveWindow(target) unless target is nil
ConstructWindow(target) ==
    /\ rangeLoop.active
    /\ \E w \in {windows.array[rangeLoop.i]} :
       \E ws \in {IF target = NilWindow THEN windows
                  ELSE RemoveWindow(windows, target)} :
           /\ windows' = ws
           /\ pass' = [pass EXCEPT
                          !.visited = Append(@, w),
                          !.removed = IF target = NilWindow THEN @
                                      ELSE @ \cup {target.ID},
                          !.done = (rangeLoop.i = rangeLoop.n),
                          !.end = WindowList(ws)]
    /\ rangeLoop' = [rangeLoop EXCEPT !.i = @ + 1,
                                      !.active = (rangeLoop.i < rangeLoop.n)]
    /\ mgrLog' = IF target = NilWindow THEN mgrLog
                 ELSE [op |-> "RemoveWindow", before |-> WindowList(windows),
                       arg |-> target, seen |-> << >>]
    /\ UNCHANGED << created, frameVars, drawVars >>

WindowsInit == Init /\ fontRegistered /\ IsMoveable

WindowsNext ==
    \/ \E id \in WindowIDs : NewWindowCall(id)
    \/ \E w \in ListedWindows : RemoveWindowCall(w)
    \/ DrawCall
    \/ ConstructWindows
    \/ \E target \in ListedWindows \cup {NilWindow} : ConstructWindow(target)

WindowsSpec == WindowsInit /\ [][WindowsNext]_vars

\* ------------------------------------------------------------------------
\* Properties
\* ------------------------------------------------------------------------

\* the calls of one function among the focus calls of the last step
CallsOf(fn) == { calls[i] : i \in { j \in DOMAIN calls : calls[j].fn = fn } }

\* C1: SetActiveInputID(id) returns true and sets activeInputID to id exactly
\* when activeInputID is empty or the left button's action is not Down at the
\* moment of the call; otherwise it returns false and leaves activeInputID
\* and the active text editor as they were.
C1_ClaimSucceedsIffFreeOrNotDown ==
    \A c \in CallsOf("SetActiveInputID") :
        /\ c.ret = (c.preID = "" \/ c.preAction # MouseDown)
        /\ c.ret => c.postID = c.id
        /\ ~c.ret => (c.postID = c.preID /\ c.postEdit = c.preEdit)

\* C1 witness: a claim was refused because another ID held the token while
\* the button was Down.
C1_Witness ==
    \E c \in CallsOf("SetActiveInputID") :
        ~c.ret /\ c.preID \notin {"", c.id} /\ c.preAction = MouseDown

\* a claim took the token from another ID because the button was not Down
C1_StealReached ==
    \E c \in CallsOf("SetActiveInputID") :
        c.ret /\ c.preID \notin {"", c.id} /\ c.preAction # MouseDown

\* the action GetMouseButtonAction(0) returned last
LeftAction ==
    IF 0 \in DOMAIN mouseButtonTracker
    THEN mouseButtonTracker[0].lastAction ELSE MouseUp

\* C2: while the left button's action stays Down, a claimed activeInputID is
\* neither cleared nor replaced: every step that starts and ends with the
\* action Down and starts with a claimed token leaves the token as it was.
C2_FocusHeldWhileDown ==
    [][ (LeftAction = MouseDown /\ LeftAction' = MouseDown /\ activeInputID # "")
            => activeInputID' = activeInputID ]_vars

\* C3: in the first frame that observes the left button Down after a frame
\* that did not, activeInputID is empty when the window starts its construct
\* pass.
C3_TokenFreeAtNewPress ==
    (pc = "begin" /\ edge.pressed /\ LeftAction = MouseDown) => activeInputID = ""

\* C4: setActiveTextEditor(id, cursorPos) succeeds exactly when no text
\* editor is active; on success the editor has that id and cursor offset and
\* the key-event queue is empty, and the step that made the claim applies no
\* key to the string; on failure the editor and the queue are unchanged.
C4_TextEditorClaim ==
    [][ \A c \in CallsOf("setActiveTextEditor")' :
            /\ c.ret = ~c.preEdit.set
            /\ c.ret => /\ c.postEdit = [set |-> TRUE, ID |-> c.id,
                                         CursorOffset |-> c.cursorPos]
                        /\ c.postKeys = << >>
                        /\ value' = value
            /\ ~c.ret => (c.postEdit = c.preEdit /\ c.postKeys = c.preKeys)
      ]_vars

\* C4 witness: a successful claim found key events in the queue
C4_Witness ==
    \E c \in CallsOf("setActiveTextEditor") :
        c.ret /\ c.preKeys # << >> /\ keyBuffer = << >>

\* a claim of the text editor was refused
C4_RefusalReached ==
    \E c \in CallsOf("setActiveTextEditor") : ~c.ret /\ c.preKeys # << >>

\* C5: when SetActiveInputID succeeds with an id that differs from the active
\* text editor's ID the editor is released in that call; when it succeeds
\* with the editor's own ID, or fails, the editor is unchanged.
C5_FocusChangeReleasesEditor ==
    \A c \in CallsOf("SetActiveInputID") :
        /\ (c.ret /\ c.preEdit.set /\ c.id # c.preEdit.ID) => c.postEdit = NilEditor
        /\ (~c.ret \/ ~c.preEdit.set \/ c.id = c.preEdit.ID) => c.postEdit = c.preEdit

\* C5 witness: a successful claim by another ID released an active editor
C5_Witness ==
    \E c \in CallsOf("SetActiveInputID") :
        c.ret /\ c.preEdit.set /\ c.id # c.preEdit.ID /\ c.postEdit = NilEditor

\* a successful claim by the editor's own ID kept the editor
C5_OwnClaimReached ==
    \E c \in CallsOf("SetActiveInputID") :
        c.ret /\ c.preEdit.set /\ c.id = c.preEdit.ID /\ c.preEdit.CursorOffset > 0

\* C6: whenever a call makes the active text editor go from none to set,
\* activeInputID equals the new editor's ID right after that claim.
C6_EditorOwnerHoldsInput ==
    \A c \in CallsOf("setActiveTextEditor") :
        (c.ret /\ ~c.preEdit.set /\ c.postEdit.set) => c.postID = c.postEdit.ID

\* the widget call of the build callback with this id
WidgetOf(id) == CHOOSE w \in { OnBuild[i] : i \in DOMAIN OnBuild } : w.id = id

\* the mouse was inside the widget in the frame of the latest Release -> Press
PressInside(w) ==
    InRect(edge.downPos[1], edge.downPos[2],
           edge.downLoc[1] + w.dx, edge.downLoc[2] + w.dy, w.w, w.h)

\* the mouse is inside the widget
MouseInside(w) ==
    InRect(lastMouse[1], lastMouse[2],
           Location[1] + w.dx, Location[2] + w.dy, w.w, w.h)

\* C7: a Button reports Pressed only if the press of that click was made
\* with the mouse inside the widget, the release is inside it too, and no
\* other ID held the input focus for that press.
C7_PressedOnlyForClickInside ==
    (result.kind = "Button" /\ result.pressed) =>
        /\ PressInside(WidgetOf(result.id))
        /\ MouseInside(WidgetOf(result.id))
        /\ edge.owner \in {"", result.id}

\* C8: when the button went Down in one frame and Up in the next with the
\* mouse inside a Button in both, the font is registered and no earlier
\* widget consumed the click, Button returns (true, nil) in the release
\* frame; in every frame that is not a release frame it returns false.
C8_ClickInsideIsPressed ==
    /\ ( /\ result.kind = "Button"
         /\ edge.released /\ edge.lastDown = edge.prevFrame
         /\ PressInside(WidgetOf(result.id))
         /\ MouseInside(WidgetOf(result.id))
         /\ fontRegistered
         /\ pressedLog \in {<< >>, << result.id >>} )
       => (result.pressed /\ ~result.err)
    /\ (result.kind = "Button" /\ ~edge.released) => ~result.pressed

\* C9: for one Down -> Up transition at most one Button reports Pressed, and
\* a Button called after the pressed one in the release frame does not
\* report Pressed: its buttonBehavior result is Hover when it contains the
\* mouse and NoAction when it does not.
C9_OnePressedPerClick ==
    /\ Len(pressedLog) <= 1
    /\ ( /\ result.kind = "Button" /\ edge.released
         /\ pressedLog # << >> /\ pressedLog[1] # result.id )
       => /\ ~result.pressed
          /\ result.test = IF MouseInside(WidgetOf(result.id))
                            THEN buttonHover ELSE buttonNoAction

\* C9 witness: button A reported Pressed and button B, called after it in the
\* release frame with the mouse inside it, did not.
C9_Witness ==
    /\ result.id = "B" /\ edge.released /\ pressedLog = << "A" >>
    /\ MouseInside(WidgetOf("B")) /\ ~result.pressed

\* C9 as stated: at most one Button reports Pressed, and every Button called
\* after the pressed one in the release frame reports NoAction.
C9_LaterWidgetsSeeNoAction ==
    /\ Len(pressedLog) <= 1
    /\ ( /\ result.kind = "Button" /\ edge.released
         /\ pressedLog # << >> /\ pressedLog[1] # result.id )
       => result.test = buttonNoAction

\* C10: when the two latest Up -> Down transitions of the left button have
\* frame times less than the double click threshold apart, the frame of the
\* Down -> Up transition after the second one gets MouseDoubleClick from
\* GetMouseButtonAction.
C10_QuickSecondClickIsDoubleClick ==
    ( /\ pc = "begin" /\ edge.released
      /\ edge.prevDown # UnixEpoch
      /\ edge.lastDown - edge.prevDown < doubleClickThreshold )
    => LeftAction = MouseDoubleClick

\* a double click was returned
C10_DoubleClickReached ==
    pc = "begin" /\ edge.released /\ LeftAction = MouseDoubleClick

\* the tracked data of a button, the zero value when it is not tracked
Tracked(b) ==
    IF b \in DOMAIN mouseButtonTracker
    THEN mouseButtonTracker[b] ELSE ZeroMouseButtonData

\* C11: GetMouseButtonAction returns MouseDoubleClick only for a release
\* whose press came less than the double click threshold after the previous
\* Up -> Down transition of that button, never for the first press; and the
\* double click flag is set only while such a quick press is held.
C11_NoDoubleClickForSlowClick ==
    \A b \in Buttons :
        /\ Tracked(b).lastAction = MouseDoubleClick =>
              /\ hist[b].presses >= 2
              /\ hist[b].lastDown - hist[b].prevDown < doubleClickThreshold
        /\ Tracked(b).doubleClickDetected =>
              /\ hist[b].raw = "Press"
              /\ hist[b].presses >= 2
              /\ hist[b].lastDown - hist[b].prevDown < doubleClickThreshold

\* C11 witness: the release of a second press that was recorded exactly the
\* threshold after the first one returned MouseClick.
C11_Witness ==
    \E b \in Buttons :
        /\ hist[b].released /\ hist[b].presses >= 2
        /\ hist[b].lastDown - hist[b].prevDown = doubleClickThreshold
        /\ Tracked(b).lastPress = hist[b].lastDown
        /\ Tracked(b).lastCheckedAt = FrameStart
        /\ Tracked(b).lastAction = MouseClick

\* C12: in the frame whose poll sees the Down -> Up transition of a button,
\* GetMouseButtonAction returns MouseClick or MouseDoubleClick; in a frame
\* whose poll finds the button released without a transition it returns
\* MouseUp, so each release is reported in one frame only; and once
\* MouseDoubleClick was returned the double click flag is false.
C12_ReleaseReportedOnce ==
    \A b \in Buttons :
        ( /\ FrameStart # ZeroTime /\ hist[b].polledAt = FrameStart
          /\ ~hist[b].cleared ) =>
            /\ hist[b].released =>
                  Tracked(b).lastAction \in {MouseClick, MouseDoubleClick}
            /\ (hist[b].raw = "Release" /\ ~hist[b].released) =>
                  Tracked(b).lastAction = MouseUp
            /\ hist[b].raw = "Press" => Tracked(b).lastAction = MouseDown
            /\ Tracked(b).lastAction = MouseDoubleClick =>
                  ~Tracked(b).doubleClickDetected

\* C12 witness: the release of a quick second press returned
\* MouseDoubleClick and the flag is false again.
C12_Witness ==
    \E b \in Buttons :
        /\ hist[b].polledAt = FrameStart /\ hist[b].released
        /\ Tracked(b).lastAction = MouseDoubleClick
        /\ ~Tracked(b).doubleClickDetected

\* the frame after a release found the button still released
C12_UpAfterClickReached ==
    \E b \in Buttons :
        /\ hist[b].polledAt = FrameStart /\ hist[b].raw = "Release"
        /\ ~hist[b].released /\ hist[b].presses >= 1 /\ ~hist[b].cleared
        /\ Tracked(b).lastAction = MouseUp

C13_PollAtNextFrameReached ==
    \E b \in Buttons :
        /\ FrameStart # ZeroTime /\ hist[b].firstRet = -1
        /\ hist[b].polledAt # ZeroTime /\ glfwPolls[b] = 0
        /\ GetMouseButtonAction(St, b).s.glfwPolls[b] = 1

\* C14: while a button is Down, GetMouseDownPosition(b) returns the mouse
\* position of the frame in which the Up -> Down transition of that press
\* was polled.
C14_DownPositionOfThisPress ==
    \A b \in Buttons :
        ( /\ FrameStart # ZeroTime /\ hist[b].polledAt = FrameStart
          /\ hist[b].raw = "Press" ) =>
            GetMouseDownPosition(St, b).ret = hist[b].downPos

\* a button that is held returns the position of its press
C14_HeldPositionReached ==
    \E b \in Buttons :
        /\ hist[b].polledAt = FrameStart /\ hist[b].raw = "Press"
        /\ ~hist[b].pressed /\ hist[b].downPos # mouseLog.cursor
        /\ GetMouseDownPosition(St, b).ret = hist[b].downPos

\* C15: GetMousePositionDelta returns (0, 0) in the first frame and in every
\* later frame the difference between the mouse position of this frame and
\* that of the frame before; GetMousePosition returns the position of this
\* frame.
C15_DeltaBetweenFrames ==
    FrameStart # ZeroTime =>
        /\ GetMousePosition(St).ret = mouseLog.cursor
        /\ GetMousePositionDelta(St).ret =
              IF mouseLog.frames = 1
              THEN <<0, 0>>
              ELSE << mouseLog.cursor[1] - mouseLog.prev[1],
                      mouseLog.cursor[2] - mouseLog.prev[2] >>

\* a later frame returned the difference to the frame before it
C15_LaterDeltaReached ==
    /\ mouseLog.frames = 2 /\ mouseLog.cursor # mouseLog.prev
    /\ GetMousePositionDelta(St).ret =
          << mouseLog.cursor[1] - mouseLog.prev[1],
             mouseLog.cursor[2] - mouseLog.prev[2] >>

\* C16: cached reads return the value of the latest drain and change
\* nothing; the events that arrived since the latest drain are what the
\* next drain returns, and that drain empties the accumulator, so the
\* drained values and the accumulator together are the sum of all events.
C16_DrainOnceReadMany ==
    /\ GetScrollWheelDelta(St, TRUE).ret = scrollLog.lastDrain
    /\ GetScrollWheelDelta(St, TRUE).s = St
    /\ GetScrollWheelDelta(St, FALSE).ret = scrollLog.events - scrollLog.drained
    /\ GetScrollWheelDelta(St, FALSE).s.scrollWheelDelta = 0
    /\ GetScrollWheelDelta(GetScrollWheelDelta(St, FALSE).s, TRUE).ret
           = scrollLog.events - scrollLog.drained

\* the window has read the cached value of a drain that followed an
\* earlier drain, and further events have arrived since
C16_Witness ==
    /\ pc = "idle"
    /\ scrollPass.before # ScrollOffset
    /\ scrollLog.lastDrain # 0
    /\ scrollLog.drained # scrollLog.lastDrain
    /\ scrollWheelDelta # 0
    /\ scrollLog.events # 0

\* a construct pass of the window has ended and the next has not begun
PassEnded == pc \in {"idle", "begin"} /\ scrollPass.total # 0

\* the most the contents can be scrolled: max(0, content - viewport)
MaxScroll(totalControlHeightDC) ==
    IF totalControlHeightDC - wndDisplaySize[2] > 0
    THEN totalControlHeightDC - wndDisplaySize[2] ELSE 0

\* C17: at the end of every construct pass of a scrollable window
\* 0 <= ScrollOffset <= max(0, total content height - viewport height).
C17_OffsetWithinContent ==
    (IsScrollable /\ PassEnded) =>
        /\ 0 <= ScrollOffset
        /\ ScrollOffset <= MaxScroll(scrollPass.total)

\* C18: a pass whose contents are lower than the viewport leaves
\* ScrollOffset at 0, whatever the offset before and the wheel input.
C18_ShrunkContentResetsOffset ==
    (IsScrollable /\ PassEnded /\ scrollPass.total < wndDisplaySize[2]) =>
        ScrollOffset = 0

\* the offset was positive before the pass, the wheel moved it further in
\* the pass, and the contents had become lower than the viewport
C18_Witness ==
    /\ IsScrollable /\ PassEnded
    /\ scrollPass.total < wndDisplaySize[2]
    /\ scrollPass.before > 0
    /\ scrollLog.lastDrain # 0
    /\ scrollPass.atClamp > scrollPass.before
    /\ ScrollOffset = 0

\* C19: once a slider called with min <= max has applied a drag update,
\* its bound value is within [min, max], after every further update too.
C19_SliderValueWithinRange ==
    sliderMin <= sliderMax =>
        /\ sliderLog.SliderFloat.applied =>
               /\ sliderMin * SliderWidgets.SliderFloat.w <= sliderFloat
               /\ sliderFloat <= sliderMax * SliderWidgets.SliderFloat.w
        /\ sliderLog.SliderInt.applied =>
               /\ sliderMin <= sliderInt
               /\ sliderInt <= sliderMax

\* both sliders have been dragged back from a value they were pushed to:
\* updates that hit the lower clamp and updates that did not
C19_Witness ==
    /\ sliderLog.SliderFloat.applied /\ sliderLog.SliderInt.applied
    /\ sliderLog.SliderInt.delta < 0
    /\ sliderLog.SliderInt.before > sliderMin
    /\ sliderInt = sliderMin
    /\ sliderLog.SliderFloat.delta < 0
    /\ sliderLog.SliderFloat.before # sliderFloat
    /\ sliderFloat > sliderMin * SliderWidgets.SliderFloat.w

\* the same two slider updates with the value delta scaled by (max - min)
ScaledFloatUpdate(valueW, mouseDeltaX, sliderW, min, max) ==
    sliderClamp(valueW + mouseDeltaX * (max - min), min * sliderW, max * sliderW)
ScaledIntUpdate(val, mouseDeltaX, sliderW, min, max) ==
    sliderClamp(TruncDiv(val * sliderW + mouseDeltaX * (max - min), sliderW),
                min, max)

\* C20: a drag update of d pixels over a track of width W changes the value
\* by (d / W) * (max - min) before the clamp to [min, max].
C20_DragScaledByRange ==
    /\ sliderLog.SliderFloat.applied =>
           sliderFloat = ScaledFloatUpdate(sliderLog.SliderFloat.before,
                             sliderLog.SliderFloat.delta,
                             SliderWidgets.SliderFloat.w, sliderMin, sliderMax)
    /\ sliderLog.SliderInt.applied =>
           sliderInt = ScaledIntUpdate(sliderLog.SliderInt.before,
                           sliderLog.SliderInt.delta,
                           SliderWidgets.SliderInt.w, sliderMin, sliderMax)

\* the build callback has made both slider calls of the current frame
SlidersCalled == pc \in {"end", "idle"} /\ FrameStart # ZeroTime

\* the button was down in the frame before and is down in this one, and
\* the slider held the input focus when this frame began
SliderHeld(k) ==
    /\ edge.raw = "Press" /\ ~edge.pressed
    /\ edge.owner = SliderWidgets[k].id

\* the slider was reported pressed in the current frame
SliderPressed(k) == sliderLog[k].applied /\ sliderLog[k].frame = FrameStart

\* C21: a slider that holds the input focus while the button stays Down is
\* reported pressed in every frame and is given the mouse delta of that
\* frame, wherever the mouse is, and no other slider is reported pressed.
C21_HeldSliderKeepsDrag ==
    \A k \in DOMAIN SliderWidgets :
        (SlidersCalled /\ SliderHeld(k)) =>
            /\ SliderPressed(k)
            /\ sliderLog[k].delta = lastDelta[1]
            /\ \A j \in DOMAIN SliderWidgets \ {k} : ~SliderPressed(j)

\* the SliderFloat claimed the focus on a press inside its track and is
\* dragged while the mouse is beyond the window
C21_Witness ==
    /\ SlidersCalled /\ SliderHeld("SliderFloat")
    /\ InRect(edge.downPos[1], edge.downPos[2],
              edge.downLoc[1] + SliderWidgets.SliderFloat.dx,
              edge.downLoc[2] + SliderWidgets.SliderFloat.dy,
              SliderWidgets.SliderFloat.w, SliderWidgets.SliderFloat.h)
    /\ ~ContainsPosition(St, lastMouse[1], lastMouse[2])
    /\ SliderPressed("SliderFloat")
    /\ sliderLog.SliderFloat.delta > 0

\* the build callback has made its Editbox call, which consumed key events
KeysConsumed == pc = "end" /\ ~panicked /\ keyLog.consumed

\* the Editbox call consumed exactly this one key of the translation table
OnlyKey(code) ==
    /\ KeysConsumed
    /\ Len(keyLog.batch) = 1
    /\ ~keyLog.batch[1].IsRune
    /\ keyLog.batch[1].KeyCode = code

\* every rune of the string is encoded in one byte
OneByteRunes(str) == \A i \in DOMAIN str : str[i] < 128

\* the string without its i-th rune, for a string of one-byte runes
WithoutRune(str, i) == SubSeq(str, 1, i - 1) \o SubSeq(str, i + 1, Len(str))

\* the Editbox call consumed exactly these two keys of the translation
\* table, in this order
TwoKeys(first, second) ==
    /\ KeysConsumed
    /\ Len(keyLog.batch) = 2
    /\ ~keyLog.batch[1].IsRune /\ keyLog.batch[1].KeyCode = first
    /\ ~keyLog.batch[2].IsRune /\ keyLog.batch[2].KeyCode = second

C22_DeleteReached ==
    /\ OnlyKey(EweyKeyDelete) /\ keyLog.value = << 97, 98 >> /\ keyLog.cursor = 1
    /\ value = << 97 >>

\* C23: a rune inserted at the cursor and then deleted again with Backspace
\* leaves the string and the cursor offset as they were.
C23_InsertThenDeleteRestores ==
    ( /\ KeysConsumed
      /\ Len(keyLog.batch) = 2
      /\ keyLog.batch[1].IsRune /\ ~keyLog.batch[1].CtrlDown
      /\ ~keyLog.batch[2].IsRune /\ keyLog.batch[2].KeyCode = EweyKeyBackspace
      /\ 0 <= keyLog.cursor /\ keyLog.cursor <= Len(keyLog.value) ) =>
        /\ value = keyLog.value
        /\ activeTextEdit.CursorOffset = keyLog.cursor

\* the i-th event of the consumed batch is Enter or Escape
ReleaseKeyAt(i) ==
    /\ i \in DOMAIN keyLog.batch
    /\ ~keyLog.batch[i].IsRune
    /\ keyLog.batch[i].KeyCode \in {EweyKeyEnter, EweyKeyEscape}

\* C28: when Enter or Escape is followed by another key event in the batch
\* of one frame, the Editbox call completes, the later event does not
\* change the string, and both focuses stay released.
C28_EventsAfterReleaseIgnored ==
    (pc = "end" /\ keyLog.consumed /\ Len(keyLog.batch) = 2 /\ ReleaseKeyAt(1)) =>
        /\ ~panicked
        /\ value = keyLog.value
        /\ ~activeTextEdit.set
        /\ activeInputID = ""

\* C29: when the active editbox has processed Enter or Escape and its call
\* has returned, no text editor is active and activeInputID is empty; a
\* batch of that key alone leaves the string as it was.
C29_ReleaseKeyDropsBothFocuses ==
    (KeysConsumed /\ \E i \in DOMAIN keyLog.batch : ReleaseKeyAt(i)) =>
        /\ ~activeTextEdit.set
        /\ activeInputID = ""
        /\ Len(keyLog.batch) = 1 => value = keyLog.value
        /\ (Len(keyLog.batch) = 2 /\ ~ReleaseKeyAt(1)) =>
               value = EditboxKey([St EXCEPT !.value = keyLog.value,
                                      !.activeTextEdit =
                                          [set |-> TRUE, ID |-> result.id,
                                           CursorOffset |-> keyLog.cursor]],
                                  keyLog.batch[1]).value

\* Escape was processed while the button was held down on the editbox,
\* which held both focuses and a string
C29_Witness ==
    /\ KeysConsumed /\ Len(keyLog.batch) = 1 /\ ReleaseKeyAt(1)
    /\ keyLog.batch[1].KeyCode = EweyKeyEscape
    /\ glfwButton[0] = "Press"
    /\ edge.owner = result.id
    /\ value # << >>
    /\ ~activeTextEdit.set /\ activeInputID = ""

\* Enter was processed after a typed rune of the same frame
C29_EnterAfterRuneReached ==
    /\ KeysConsumed /\ Len(keyLog.batch) = 2 /\ ReleaseKeyAt(2)
    /\ keyLog.batch[1].IsRune
    /\ keyLog.batch[2].KeyCode = EweyKeyEnter
    /\ value # keyLog.value

\* the consumed key left the string and the cursor offset as they were
KeyChangedNothing ==
    value = keyLog.value /\ activeTextEdit.CursorOffset = keyLog.cursor

C30_RightAtEndReached ==
    /\ OnlyKey(EweyKeyRight) /\ keyLog.cursor = Len(keyLog.value)
    /\ Len(keyLog.value) >= 2
    /\ SubSeq(keyLog.value, 1, 2) = clippy
    /\ KeyChangedNothing
\* ------------------------------------------------------------------------
\* Width requests and calls without a font
\* ------------------------------------------------------------------------

\* the latest call was a Text that succeeded right after a
\* RequestItemWidthMin, with no maximum requested
TextAfterMinRequest ==
    /\ layoutLog.kind = "Text" /\ ~layoutLog.err
    /\ layoutLog.askedMin[1] > 0
    /\ layoutLog.pendingMax = 0

\* how far the latest call moved the cursor to the right
CursorAdvance == widgetCursorDC[1] - layoutLog.before[1]

\* the smaller of two numbers
Least(a, b) == IF a < b THEN a ELSE b

\* C24: a Text that follows RequestItemWidthMin(f) advances the cursor by
\* at least f times the window's width, or by what is left of the row when
\* that is less; on a window 400 pixels wide RequestItemWidthMin(0.5) and a
\* Text of natural width 50 at the start of a row advance the cursor by 200.
C24_MinRequestScalesWindowWidth ==
    TextAfterMinRequest =>
        /\ CursorAdvance >=
               Least(Scaled(layoutLog.askedMin, Width),
                     Width - WindowPadding[2] - layoutLog.before[1])
        /\ ( /\ Width = 400
             /\ layoutLog.askedMin = <<1, 2>>
             /\ layoutLog.natural = 50
             /\ layoutLog.before[1] = WindowPadding[1] )
           => CursorAdvance = 200

\* the scenario of C24 under the padding of DefaultStyle: the cursor
\* advances by half of the width between the paddings
C24_PaddedScenarioReached ==
    /\ TextAfterMinRequest
    /\ Width = 400
    /\ WindowPadding = <<4, 4, 4, 4>>
    /\ layoutLog.askedMin = <<1, 2>>
    /\ layoutLog.natural = 50
    /\ layoutLog.before[1] = WindowPadding[1]
    /\ CursorAdvance = 196

\* the widget functions that look the font up
FontWidgets == {"Text", "Button", "Editbox", "Image", "SliderFloat", "SliderInt"}

\* this step is a call of one of the widget functions that need the font
FontWidgetCalled ==
    /\ layoutLog'.n = layoutLog.n + 1
    /\ layoutLog'.kind \in FontWidgets

C25_LaterWidgetReached ==
    /\ ~fontRegistered
    /\ layoutLog.kind = "Space"
    /\ layoutLog.n = 3
    /\ CursorAdvance = 200

\* ------------------------------------------------------------------------
\* The list of windows
\* ------------------------------------------------------------------------

\* the windows of a list that do not have the ID
Without(list, id) == SelectSeq(list, LAMBDA w : w.ID # id)

\* a Construct has finished its loop and no build callback removed a window
QuietPassDone == pass.done /\ pass.removed = {}

C26_QuietPassReached ==
    /\ QuietPassDone
    /\ Len(pass.visited) = 3
    /\ \A k \in 1..3 : pass.visited[k].n = k

\* the windows a pass constructed, without those that have left the list
VisitedOfList == SelectSeq(pass.visited,
                           LAMBDA w : \E k \in 1..Len(pass.end) : pass.end[k] = w)

\* C27: when the loop of Construct has ended, the windows it constructed
\* that are still in the list are the windows of the list, each once and
\* in the order of the list, also when a build callback removed a window.
C27_EachWindowConstructedOnce ==
    pass.done =>
        /\ Len(VisitedOfList) = Len(pass.end)
        /\ \A k \in 1..Len(pass.end) : VisitedOfList[k] = pass.end[k]

\* the first of three windows removed itself in its build callback: the
\* second one was not constructed in this pass and the third one twice
C27_SkippedAndTwiceReached ==
    /\ pass.done
    /\ Len(pass.start) = 3
    /\ pass.removed = {pass.start[1].ID}
    /\ pass.end = << pass.start[2], pass.start[3] >>
    /\ pass.visited = << pass.start[1], pass.start[3], pass.start[3] >>

\* ------------------------------------------------------------------------
\* Two editboxes and one key queue
\* ------------------------------------------------------------------------

\* this step is the Editbox call of the box with the given ID
EditboxCalled(id) ==
    /\ layoutLog'.n = layoutLog.n + 1
    /\ layoutLog'.kind = "Editbox"
    /\ result'.id = id

\* the box was the active text editor when the call began or became it
\* during the call
OwnsTextEdit(id) ==
    \/ activeTextEdit.set /\ activeTextEdit.ID = id
    \/ \E k \in 1..Len(calls') :
           calls'[k].fn = "setActiveTextEditor" /\ calls'[k].id = id

\* C31: an Editbox call of a box that does not own the text-edit focus
\* leaves the key queue and the box's string as they are, and the call of
\* the second box applies no event when the first box applied events in
\* this pass.
C31_KeysGoToTheOwnerOnly ==
    [][/\ (EditboxCalled("E") /\ ~OwnsTextEdit("E")) =>
              (keyBuffer' = keyBuffer /\ value' = value)
       /\ (EditboxCalled("F") /\ ~OwnsTextEdit("F")) =>
              (keyBuffer' = keyBuffer /\ value2' = value2)
       /\ EditboxCalled("F") =>
              (keyLog.batch = << >> \/ keyLog2'.batch = << >>)]_vars

\* F owns the text-edit focus: the call of E left two events in the queue
\* and its string alone, the call of F applied them to its own string
C31_Witness ==
    /\ pc = "end" /\ ~panicked
    /\ result.id = "F"
    /\ ~keyLog.consumed
    /\ keyLog2.consumed /\ Len(keyLog2.batch) = 2
    /\ keyBuffer = << >>
    /\ value = << >>
    /\ value2 # keyLog2.value

\* E owned the text-edit focus and drained the queue, then a press gave
\* the focus to F in the same pass: F found the queue empty
C31_FocusMovedReached ==
    /\ pc = "end" /\ ~panicked
    /\ keyLog.consumed /\ keyLog.batch # << >>
    /\ keyLog2.consumed /\ keyLog2.batch = << >>
    /\ activeTextEdit.set /\ activeTextEdit.ID = "F"

\* ------------------------------------------------------------------------
\* Dragging the window
\* ------------------------------------------------------------------------

\* the mouse was inside the window's frame in the frame of the latest
\* Release -> Press
PressInFrame ==
    /\ edge.downPos[1] > edge.downLoc[1]
    /\ edge.downPos[1] < edge.downLoc[1] + Width
    /\ edge.downPos[2] < edge.downLoc[2]
    /\ edge.downPos[2] > edge.downLoc[2] - GetFrameSize(St)[4]

\* C32: a construct pass changes the window's Location only while the left
\* button is Down, after a press that was made inside the window's frame,
\* and with the window holding the input focus at the end of the pass.
C32_MovedOnlyByPressInside ==
    [][Location' # Location =>
           /\ lmbDown
           /\ activeInputID' = WindowID
           /\ PressInFrame]_vars

\* the button went down with the mouse outside the frame, the held mouse
\* was dragged into the frame, and the pass moved the window
C32_PressOutsideMovedReached ==
    /\ pc = "idle" /\ FrameStart # ZeroTime
    /\ edge.raw = "Press" /\ ~edge.pressed
    /\ ~PressInFrame
    /\ Location # edge.downLoc

\* ------------------------------------------------------------------------
\* A construct pass without the font
\* ------------------------------------------------------------------------

\* C33: with the font of the style not registered, a construct pass of a
\* window with NewWindow's defaults ends without a run-time panic; the
\* missing font shows only in the errors the widget calls return.
C33_NoFontNoPanic == ~fontRegistered => ~panicked

\* a first pass without the font: every widget returned an error and the
\* pass panicked while building the frame
C33_PanicInFirstPassReached ==
    /\ ~fontRegistered /\ panicked /\ pc = "idle"
    /\ layoutLog.n = 3 /\ layoutLog.err
    /\ result.err

\* ------------------------------------------------------------------------
\* Width requests are one-off
\* ------------------------------------------------------------------------

\* this step is a call that advanced the cursor
Advanced ==
    /\ layoutLog'.n = layoutLog.n + 1
    /\ layoutLog'.kind \in AdvancingWidgets
    /\ ~layoutLog'.err

\* what the call of this step adds to the cursor when nothing is requested
Unrequested ==
    LET kind == layoutLog'.kind
        natural == layoutLog'.natural
    IN  IF kind = "Text" THEN natural + TextMargin[1] + TextMargin[2]
        ELSE IF kind = "Image" THEN natural + ImageMargin[1] + ImageMargin[2]
        ELSE IF kind = "Button"
        THEN natural + ButtonMargin[1] + ButtonMargin[2]
        ELSE natural

\* C34: a call that advances the cursor leaves both width requests
\* inactive (not above 0), and the call that follows a widget which
\* consumed a request advances the cursor by its natural width.
C34_RequestIsOneOff ==
    [][Advanced =>
           /\ requestedItemWidthMinDC' <= 0
           /\ requestedItemWidthMaxDC' <= 0
           /\ layoutLog'.afterConsumer =>
                  widgetCursorDC'[1] - widgetCursorDC[1] = Unrequested]_vars

\* a text 50 pixels wide was stretched by a minimum request, and the same
\* text right after it took its 50 pixels and the margins
C34_Witness ==
    /\ layoutLog.n = 3 /\ layoutLog.kind = "Text" /\ ~layoutLog.err
    /\ layoutLog.afterConsumer
    /\ layoutLog.natural = 50
    /\ layoutLog.before[1] > 54
    /\ widgetCursorDC[1] = layoutLog.before[1] + 54
    /\ requestedItemWidthMinDC = 0 /\ requestedItemWidthMaxDC = 0

\* a button after a text that was cut by a maximum request
C34_AfterMaxReached ==
    /\ layoutLog.n = 3 /\ layoutLog.kind = "Button" /\ ~layoutLog.err
    /\ layoutLog.afterConsumer
    /\ layoutLog.before[1] < 300

\* ------------------------------------------------------------------------
\* The cursor advance and what was drawn
\* ------------------------------------------------------------------------

\* C35: after a widget call that advanced the cursor, the advance is at
\* least the horizontal extent the widget was drawn with (left margin plus
\* drawn width), whatever minimum and maximum were pending.
C35_AdvanceCoversDrawnExtent ==
    (layoutLog.kind \in AdvancingWidgets /\ ~layoutLog.err)
        => CursorAdvance >= layoutLog.drawn

\* a text 300 pixels wide after RequestItemWidthMax: drawn in full, the
\* cursor advanced by the maximum only
C35_TextCutByMaxReached ==
    /\ layoutLog.kind = "Text" /\ ~layoutLog.err
    /\ layoutLog.natural = 300
    /\ layoutLog.pendingMax > 0 /\ layoutLog.pendingMax < 300
    /\ layoutLog.pendingMin = 0
    /\ CursorAdvance = layoutLog.pendingMax
    /\ layoutLog.drawn = 302

\* a button with a minimum above the maximum: drawn with the minimum, the
\* cursor advanced by the maximum
C35_MinAboveMaxReached ==
    /\ layoutLog.kind = "Button" /\ ~layoutLog.err
    /\ layoutLog.pendingMin > layoutLog.pendingMax
    /\ layoutLog.pendingMax > layoutLog.natural + 4
    /\ layoutLog.drawn = layoutLog.pendingMin - 2
    /\ CursorAdvance = layoutLog.pendingMax

\* ------------------------------------------------------------------------
\* Rows
\* ------------------------------------------------------------------------

\* the largest of a set of heights, 0 for none
MaxOf(S) == IF S = {} THEN 0 ELSE CHOOSE h \in S : \A k \in S : k <= h

\* this step is a call of StartRow
StartRowCalled ==
    /\ layoutLog'.n = layoutLog.n + 1
    /\ layoutLog'.kind = "StartRow"

\* C36: StartRow puts the cursor's x at the left padding plus
\* IndentSpacing times indentLevel, lowers the cursor's y by the largest
\* height a widget passed to setNextRowCursorOffset since the previous
\* StartRow (0 when there was none) and resets that maximum to 0.
C36_StartRowLowersByTallest ==
    [][StartRowCalled =>
           /\ widgetCursorDC'[1] = WindowPadding[1] + IndentSpacing * indentLevel
           /\ widgetCursorDC'[2] = widgetCursorDC[2] - MaxOf(layoutLog.heights)
           /\ nextRowCursorOffsetDC' = 0]_vars

\* a row of a text 14 pixels high and an image 20 pixels high, at indent
\* level 1: StartRow lowered the cursor by the 20 pixels of the image and
\* put it one IndentSpacing right of the padding
C36_Witness ==
    /\ layoutLog.kind = "StartRow" /\ layoutLog.n = 4
    /\ indentLevel = 1
    /\ widgetCursorDC[1] = WindowPadding[1] + IndentSpacing
    /\ widgetCursorDC[2] = layoutLog.before[2] - 20
    /\ layoutLog.before[1] = WindowPadding[1] + IndentSpacing + 100 + 54

\* StartRow right after StartRow: the cursor stayed where it was
C36_SecondStartRowReached ==
    /\ layoutLog.kind = "StartRow" /\ layoutLog.n = 4
    /\ layoutLog.before = widgetCursorDC
    /\ widgetCursorDC[2] < -2 - WindowPadding[3]

\* ------------------------------------------------------------------------
\* The indent of the first row
\* ------------------------------------------------------------------------

\* this step is the start of a construct pass, up to the build callback
PassStarted == pc = "begin" /\ pc' = "build"

\* this step is a call of Unindent
UnindentCalled ==
    /\ layoutLog'.n = layoutLog.n + 1
    /\ layoutLog'.kind = "Unindent"

\* C37: a construct pass starts with the cursor's x at the left padding
\* plus IndentSpacing times the indentLevel the previous frame left,
\* indentLevel is never negative, and an Unindent that does not lower
\* indentLevel leaves the cursor's x alone.
C37_FirstRowIndentedLikeTheOthers ==
    [][ /\ PassStarted =>
               widgetCursorDC'[1] = WindowPadding[1] + IndentSpacing * indentLevel'
        /\ indentLevel' >= 0
        /\ (UnindentCalled /\ indentLevel' = indentLevel) =>
               widgetCursorDC'[1] = widgetCursorDC[1] ]_vars

\* a pass began at indent level 1 with the cursor at the left padding
C37_IndentLostReached ==
    /\ pc = "build" /\ layoutLog.n = 0
    /\ indentLevel = 1
    /\ widgetCursorDC[1] = WindowPadding[1]

\* Unindent at indent level 0 moved the cursor left of the padding
C37_UnindentAtZeroReached ==
    /\ layoutLog.kind = "Unindent"
    /\ indentLevel = 0
    /\ layoutLog.before[1] = WindowPadding[1]
    /\ widgetCursorDC[1] = WindowPadding[1] - IndentSpacing

\* indentLevel is never negative
C37_IndentLevelNotNegative == indentLevel >= 0

\* ------------------------------------------------------------------------
\* The open flag of a tree node
\* ------------------------------------------------------------------------

\* the open flag the store holds for the tree node
IsOpen(store) == getStoredInt(store, TreeWidget.id)[2]
                     /\ getStoredInt(store, TreeWidget.id)[1] > 0

\* this step is a call of TreeNode
TreeNodeCalled == pc = "build" /\ pc' = "end" /\ treeLog'.called

\* C38: the node is closed as long as it was never pressed; a call that
\* reports Pressed flips the stored flag once, a call that does not and
\* every other step leave the store as it is; TreeNode returns the flag
\* as it is stored after the call.
C38_OpenFlagFlipsOnPress ==
    [][ /\ ~treeLog'.everPressed => ~IsOpen(intStorage')
        /\ IF TreeNodeCalled
           THEN /\ treeLog'.ret = IsOpen(intStorage')
                /\ IF treeLog'.pressed
                   THEN IsOpen(intStorage') = ~IsOpen(intStorage)
                   ELSE intStorage' = intStorage
           ELSE intStorage' = intStorage ]_vars

\* the node was opened in an earlier frame, and a later call without a
\* press returned true
C38_Witness ==
    /\ pc = "end"
    /\ treeLog.called /\ ~treeLog.pressed /\ treeLog.ret
    /\ treeLog.everPressed
    /\ IsOpen(intStorage)

\* a second press closed the node again: the store holds 0 for it
C38_ClosedAgainReached ==
    /\ pc = "end"
    /\ treeLog.called /\ treeLog.pressed /\ ~treeLog.ret
    /\ TreeWidget.id \in DOMAIN intStorage
    /\ intStorage[TreeWidget.id] = 0

\* ------------------------------------------------------------------------
\* The merged buffers of Manager.Draw
\* ------------------------------------------------------------------------

\* the vertex an index of the buffers b refers to; NoVertex when the
\* index is beyond the vertices
NoVertex == <<-1, -1>>
VertexAt(b, k) ==
    IF b.indexBuffer[k] + 1 <= Len(b.comboBuffer)
    THEN b.comboBuffer[b.indexBuffer[k] + 1] ELSE NoVertex

\* the vertices the indices of the commands refer to, command by command
RECURSIVE SourceVertices(_)
SourceVertices(cmds) ==
    IF cmds = << >> THEN << >>
    ELSE IF Head(cmds).isCustom THEN SourceVertices(Tail(cmds))
    ELSE [k \in 1..Len(Head(cmds).indexBuffer) |-> VertexAt(Head(cmds), k)]
             \o SourceVertices(Tail(cmds))

\* every index of every command is below the number of its vertices
IndicesWithinLists ==
    \A w \in 1..Len(wndCmds) : \A c \in 1..Len(wndCmds[w]) :
        \A k \in 1..Len(wndCmds[w][c].indexBuffer) :
            wndCmds[w][c].indexBuffer[k] < Len(wndCmds[w][c].comboBuffer)

\* C39: after Draw every index of the merged index buffer refers to the
\* vertex that the index had in its command, for the commands that are
\* not custom taken in window order, and in every command each index is
\* below the number of the command's vertices.
C39_MergedIndicesKeepTheirVertex ==
    /\ IndicesWithinLists
    /\ (drawLog.drew /\ drawLog.frames > 0) =>
           LET source == SourceVertices(AllCmds(wndCmds))
           IN  /\ Len(uiGeometry.indexBuffer) = Len(source)
               /\ \A p \in 1..Len(source) :
                      VertexAt(uiGeometry, p) = source[p]

\* the first window ends with a command without geometry that is not
\* custom, and the indices of the second window were moved one too far
C39_EmptyCommandReached ==
    /\ drawLog.drew /\ Len(wndCmds) = 2
    /\ Len(wndCmds[1]) = 3
    /\ wndCmds[1][2].isCustom
    /\ ~wndCmds[1][3].isCustom /\ wndCmds[1][3].indexBuffer = << >>
    /\ Len(wndCmds[2]) = 1
    /\ uiGeometry.startIndex = Len(uiGeometry.comboBuffer) + 1
    /\ \E p \in 1..Len(uiGeometry.indexBuffer) :
           VertexAt(uiGeometry, p) = NoVertex

\* C40: when Draw has returned, the scissor test is disabled and the depth
\* test is enabled, as the host had them.
C40_DrawRestoresGfxState ==
    drawLog.drew =>
        /\ gfxEnabled.SCISSOR_TEST = FALSE
        /\ gfxEnabled.DEPTH_TEST = TRUE

\* Draw of a Manager without windows returned with the scissor test
\* enabled and the depth test disabled
C40_NoWindowsReached ==
    /\ drawLog.drew /\ Len(wndCmds) = 0 /\ drawLog.frames = 1
    /\ drawLog.before = HostGfx
    /\ gfxEnabled.SCISSOR_TEST /\ ~gfxEnabled.DEPTH_TEST

\* Draw of two constructed windows returned with the state of the host
C40_DrawnFrameReached ==
    /\ drawLog.drew /\ Len(wndCmds) = 2 /\ drawLog.frames = 1
    /\ uiGeometry.faceCount >= 8
    /\ gfxEnabled = HostGfx

====
